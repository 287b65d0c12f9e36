--------------------------- MODULE ServicesProofs ---------------------------
(***************************************************************************)
(* Theorems about MCServices: the parts it puts together keep the          *)
(* invariants that hold of each of them alone.                             *)
(***************************************************************************)
EXTENDS MCServices, GatewayProofs, TraceStoreProofs, AgentFlowProofs, RuntimeGraphProofs

\* What the parts need of their constants.
Sane == /\ Gateway \in Procs /\ Steps \in Nat
        /\ ResumeFrom \in Nat /\ MaxPlan \in Nat /\ Parameters

\* A step is one of each part, or leaves it alone.
LEMMA StepsArePartial ==
  [Next]_vars => /\ [CacheNext]_cacheVars /\ [TraceNext]_traceVars /\ [GraphNext]_graphVars
                 /\ [StreamNext]_streamVars /\ [FlowNext]_flowVars
<1>. SUFFICES ASSUME [Next]_vars
              PROVE  /\ [CacheNext]_cacheVars /\ [TraceNext]_traceVars /\ [GraphNext]_graphVars
                     /\ [StreamNext]_streamVars /\ [FlowNext]_flowVars
  OBVIOUS
<1>1. CASE UNCHANGED vars  BY <1>1, Zenon DEF vars
<1>2. CASE focus = "cache" /\ CacheNext /\ OnlyCache  BY <1>2, Zenon DEF OnlyCache
<1>3. CASE focus = "trace" /\ TraceNext /\ OnlyTrace  BY <1>3, Zenon DEF OnlyTrace
<1>4. CASE focus = "graph" /\ GraphNext /\ OnlyGraph  BY <1>4, Zenon DEF OnlyGraph
<1>5. CASE focus = "stream" /\ StreamNext /\ OnlyStream  BY <1>5, Zenon DEF OnlyStream
<1>6. CASE focus = "flow" /\ FlowNext /\ OnlyFlow  BY <1>6, Zenon DEF OnlyFlow
<1>. QED  BY <1>1, <1>2, <1>3, <1>4, <1>5, <1>6 DEF Next

\* They share no state: each goes on as if it were alone.  Some of the traced runs may never begin.
THEOREM ServicesRefineParts ==
  Spec => /\ CacheInit /\ [][CacheNext]_cacheVars
          /\ (\E absent, spent : InitWithout(absent, spent)) /\ [][TraceNext]_traceVars
          /\ GraphInit /\ [][GraphNext]_graphVars
          /\ StreamInit /\ [][StreamNext]_streamVars
          /\ FlowInit /\ [][FlowNext]_flowVars
<1>1. Init => /\ CacheInit /\ GraphInit /\ StreamInit /\ FlowInit
              /\ \E absent, spent : InitWithout(absent, spent)
  BY Zenon DEF Init
<1>. QED  BY <1>1, StepsArePartial, PTL DEF Spec

\* Types of the state of all parts.
THEOREM ServicesTypes == ASSUME Sane PROVE Spec => []TypeOK
<1>1. /\ Gateway \in Procs /\ Steps \in Nat
      /\ ResumeFrom \in Nat /\ MaxPlan \in Nat /\ Parameters
  BY DEF Sane
<1>2. (\E absent, spent : InitWithout(absent, spent)) => TraceInv  BY TraceInvInit
<1>3. (\E absent, spent : InitWithout(absent, spent)) /\ [][TraceNext]_traceVars => []TraceInv
  BY <1>2, TraceInvNext, PTL
<1>4. CacheInv /\ TraceInv /\ GraphInv /\ StreamInv /\ FlowInv => TypeOK
  BY DEF TypeOK, CacheInv, TraceInv, GraphInv, StreamInv, FlowInv
<1>. QED
  BY <1>1, <1>3, <1>4, ServicesRefineParts, CacheInvariant, GraphInvariant, StreamInvariant,
     FlowInvariant, PTL

\* The services as a whole: what holds of each of them alone holds of a product that runs them all.
THEOREM ServicesSafety ==
  ASSUME Sane
  PROVE  Spec => /\ [](/\ CleanCacheIsDropped
                       /\ SpanIsUnderItsRoot /\ SealedIsExact /\ TotalNeverAbove /\ ReaderSeesWhole
                       /\ RiskyIsAnswered /\ WindowIsPaired /\ NothingForgotten
                       /\ MissedOnlyInGap /\ OlderResultsAreGiven)
                 /\ EventsInOrder
<1>1. /\ Gateway \in Procs /\ Steps \in Nat
      /\ ResumeFrom \in Nat /\ MaxPlan \in Nat /\ Parameters
  BY DEF Sane
<1>2. (\E absent, spent : InitWithout(absent, spent)) => TraceInv  BY TraceInvInit
<1>3. TraceInv => SpanIsUnderItsRoot /\ SealedIsExact /\ TotalNeverAbove /\ ReaderSeesWhole
  BY TraceInvImplies
<1>4. CacheInv => CleanCacheIsDropped  BY DEF CacheInv, CleanIsFresh, CleanCacheIsDropped, Informed
<1>5. GraphInv => RiskyIsAnswered /\ WindowIsPaired /\ NothingForgotten
  BY <1>1, CutApart, ShownOrSummed DEF GraphInv
<1>6. StreamInv => MissedOnlyInGap  BY DEF StreamInv
<1>7. FlowInv => OlderResultsAreGiven  BY DEF FlowInv, Remembered, FlowWorking, OlderResultsAreGiven
<1>8. FlowInv /\ [FlowNext]_flowVars => [InOrder]_flowVars  BY <1>1, FlowInvNext
<1>. QED
  BY <1>1, <1>2, <1>3, <1>4, <1>5, <1>6, <1>7, <1>8, ServicesRefineParts, TraceInvNext, CacheInvariant,
     GraphInvariant, StreamInvariant, FlowInvariant, PTL DEF EventsInOrder, InOrder

=============================================================================
