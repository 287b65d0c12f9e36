------------------------- MODULE RuntimeGraphProofs -------------------------
(***************************************************************************)
(* Theorems about RuntimeGraph, for every set of calls, every number of    *)
(* turns and failures, and all parameters of the compressor.               *)
(***************************************************************************)
EXTENDS RuntimeGraph, SequenceTheorems, FiniteSetTheorems, TLAPS

Parameters == KeepRecent \in Nat /\ MaxTurns \in Nat /\ MaxFailures \in Nat

\* The calls the tools node works on, and the number of interrupts among the first i of them.
Ask     == Last(msgs).calls
Asking  == run.st \in {"tools", "interrupted"}
RankIn(r, cs, i) == Cardinality({j \in 1..i : r[cs[j]] # "safe"})
Rank(i) == RankIn(risk, Ask, i)
Hot(i)  == i \in 1..Len(Ask) /\ risk[Ask[i]] # "safe"

\* The tools node works on the last message, which asks for different calls.
AskOK ==
  Asking =>
    /\ Len(msgs) > 0 /\ msgs[Len(msgs)].kind = "ai"
    /\ run.pos <= Len(Ask) + 1
    /\ \A i, j \in 1..Len(Ask) : Ask[i] = Ask[j] => i = j

\* Of the calls that interrupt, the first ones have the answers of the user, in order, and the others
\* have not been carried out; the node interrupts itself for the first of those.
AnswersFit ==
  /\ Asking =>
       /\ Rank(run.pos - 1) <= Len(run.answers)
       /\ \A i \in 1..Len(Ask) : Hot(i) =>
            IF Rank(i) <= Len(run.answers)
            THEN verdict[Ask[i]] = run.answers[Rank(i)]
            ELSE effects[Ask[i]] = 0
  /\ run.st = "interrupted" => Hot(run.pos) /\ Rank(run.pos) = Len(run.answers) + 1

\* What nobody asked for has not been carried out.
Unasked == \A c \in Calls \ Asked : effects[c] = 0

\* Results follow the message that asks for them, with only results in between.
Backed ==
  \A i \in 1..Len(msgs) : msgs[i].kind = "tool" =>
    \E j \in 1..(i - 1) :
      /\ msgs[j].kind = "ai" /\ msgs[i].calls[1] \in ToSet(msgs[j].calls)
      /\ \A k \in (j + 1)..i : msgs[k].kind = "tool"

\* The summary covers what the cut archives, and the recent messages are not archived.
SummedUp == summary = 1..cut /\ (cut > 0 => cut + KeepRecent <= Len(msgs))

\* The archived part ends with an answer that asks for nothing.
CutRests == cut > 0 => cut <= Len(msgs) /\ Concluded(msgs[cut])

\* The tools node has a result for every call it is done with.
ResultsKept ==
  run.st = "tools" =>
    Len(run.out) = run.pos - 1 /\ \A k \in 1..(run.pos - 1) : run.out[k] = Tool(Ask[k])

\* Every call has its result, or is one of the last message's that are being worked on.
Resulted ==
  ~broken =>
    \A i \in 1..Len(msgs) : msgs[i].kind = "ai" =>
      \A c \in ToSet(msgs[i].calls) :
        \/ \E j \in (i + 1)..Len(msgs) : msgs[j] = Tool(c)
        \/ i = Len(msgs) /\ Asking

Shape == Backed /\ CutRests /\ ResultsKept /\ Resulted

\* The inductive invariant.
GraphInv == GraphTypeOK /\ AskOK /\ AnswersFit /\ Unasked /\ RiskyIsAnswered /\ SummedUp /\ Shape

RunState == [st : Active \cup {"idle", "interrupted"}, pos : Nat \ {0}, out : Seq(Message),
             answers : Seq(Answers)]

-----------------------------------------------------------------------------
(* Counting interrupts                                                     *)

\* A call adds one to the number of interrupts if it interrupts.
LEMMA RankStep ==
  ASSUME NEW r, NEW cs, NEW i \in Nat \ {0}
  PROVE  /\ RankIn(r, cs, 0) = 0 /\ RankIn(r, cs, i) \in Nat /\ RankIn(r, cs, i - 1) \in Nat
         /\ RankIn(r, cs, i) = RankIn(r, cs, i - 1) + IF r[cs[i]] # "safe" THEN 1 ELSE 0
<1>. DEFINE S(n) == {j \in 1..n : r[cs[j]] # "safe"}
<1>1. \A n \in Nat : IsFiniteSet(S(n)) /\ Cardinality(S(n)) \in Nat
  <2>. TAKE n \in Nat
  <2>1. IsFiniteSet(1..n)  BY FS_Interval
  <2>2. S(n) \in SUBSET (1..n)  OBVIOUS
  <2>3. IsFiniteSet(S(n))  BY <2>1, <2>2, FS_Subset
  <2>. QED  BY <2>3, FS_CardinalityType
<1>2. Cardinality(S(0)) = 0
  <2>1. S(0) = {}  OBVIOUS
  <2>. QED  BY <2>1, FS_EmptySet
<1>3. \A n \in Nat : RankIn(r, cs, n) = Cardinality(S(n))  BY DEF RankIn
<1>4. i - 1 \in Nat  OBVIOUS
<1>5. Cardinality(S(i)) = Cardinality(S(i - 1)) + IF r[cs[i]] # "safe" THEN 1 ELSE 0
  <2>1. CASE r[cs[i]] # "safe"
    <3>1. S(i) = S(i - 1) \cup {i} /\ i \notin S(i - 1)  BY <2>1
    <3>. HIDE DEF S
    <3>. QED  BY <1>1, <1>4, <2>1, <3>1, FS_AddElement
  <2>2. CASE r[cs[i]] = "safe"
    <3>1. S(i) = S(i - 1)  BY <2>2
    <3>2. Cardinality(S(i)) = Cardinality(S(i - 1))  BY <3>1
    <3>. HIDE DEF S
    <3>. QED  BY <1>1, <1>4, <2>2, <3>2
  <2>. QED  BY <2>1, <2>2
<1>. HIDE DEF S
<1>. QED  BY <1>1, <1>2, <1>3, <1>4, <1>5

\* Of two calls that interrupt, the later one has the larger number.
LEMMA RankGrows ==
  ASSUME NEW r, NEW cs, NEW i \in Nat, NEW j \in Nat \ {0}, i < j, r[cs[j]] # "safe"
  PROVE  RankIn(r, cs, i) < RankIn(r, cs, j)
<1>. DEFINE S(n) == {k \in 1..n : r[cs[k]] # "safe"}
<1>1. IsFiniteSet(1..(j - 1)) /\ S(j - 1) \in SUBSET (1..(j - 1))  BY FS_Interval
<1>2. IsFiniteSet(S(j - 1))  BY <1>1, FS_Subset
<1>3. S(i) \in SUBSET S(j - 1)  OBVIOUS
<1>4. IsFiniteSet(S(i)) /\ Cardinality(S(i)) <= Cardinality(S(j - 1))  BY <1>2, <1>3, FS_Subset
<1>5. Cardinality(S(i)) \in Nat /\ Cardinality(S(j - 1)) \in Nat
  BY <1>2, <1>4, FS_CardinalityType
<1>6. RankIn(r, cs, i) <= RankIn(r, cs, j - 1)  BY <1>4 DEF RankIn
<1>7. RankIn(r, cs, i) \in Nat /\ RankIn(r, cs, j - 1) \in Nat  BY <1>5 DEF RankIn
<1>8. RankIn(r, cs, j) = RankIn(r, cs, j - 1) + 1  BY RankStep
<1>. QED  BY <1>6, <1>7, <1>8

-----------------------------------------------------------------------------
(* The cut                                                                 *)

\* A set of numbers up to n has a greatest one.
LEMMA Greatest ==
  ASSUME NEW n \in Nat, NEW S, S \subseteq 1..n, S # {}
  PROVE  \E m \in S : \A k \in S : k <= m
<1>. DEFINE T == {n - k : k \in S}
<1>1. \A k \in S : n - k \in Nat  OBVIOUS
<1>2. T \subseteq Nat /\ T # {}  BY <1>1
<1>3. PICK d \in T : \A k \in T : <<k, d>> \notin OpToRel(<, Nat)
  <2>. HIDE DEF T
  <2>. QED  BY <1>2, NatLessThanWellFounded, WFMin
<1>4. PICK m \in S : d = n - m  OBVIOUS
<1>5. ASSUME NEW k \in S PROVE k <= m
  <2>1. n - k \in T /\ n - k \in Nat /\ d \in Nat  BY <1>1, <1>2
  <2>2. ~(n - k < d)  BY <1>3, <2>1 DEF OpToRel
  <2>. QED  BY <1>4, <2>2
<1>. QED  BY <1>5

\* A cut that is found is an answer that asks for nothing, and leaves the recent messages.
LEMMA CutFound ==
  ASSUME KeepRecent \in Nat, NEW ms \in Seq(Message)
  PROVE  /\ SafeCut(ms) \in Nat
         /\ SafeCut(ms) > 0 => /\ SafeCut(ms) \in 1..Len(ms) /\ SafeCut(ms) + KeepRecent <= Len(ms)
                               /\ Concluded(ms[SafeCut(ms)])
<1>. DEFINE S == {i \in 1..Len(ms) : i + KeepRecent <= Len(ms) /\ Concluded(ms[i])}
<1>1. Len(ms) \in Nat  BY LenProperties
<1>2. CASE S = {}  BY <1>2 DEF SafeCut
<1>3. CASE S # {}
  <2>1. PICK m \in S : \A k \in S : k <= m  BY <1>1, <1>3, Greatest
  <2>2. SafeCut(ms) \in S  BY <1>3, <2>1 DEF SafeCut
  <2>. QED  BY <1>1, <2>2
<1>. QED  BY <1>2, <1>3

-----------------------------------------------------------------------------
(* Frames: what a step leaves alone keeps its part of the invariant        *)

\* The messages of the thread only grow.
MsgsGrow == /\ msgs' \in Seq(Message) /\ Len(msgs) <= Len(msgs')
            /\ \A i \in 1..Len(msgs) : msgs'[i] = msgs[i]

\* The variables that the invariant does not relate to others have their types.
Rest == /\ {thread, up} \subseteq BOOLEAN /\ faults \in Nat
        /\ client \in {"idle", "ready", "streaming", "gone", "joining", "error"}

\* Append and concatenation make the messages grow.
LEMMA Growth ==
  ASSUME GraphTypeOK
  PROVE  /\ \A m \in Message : msgs' = Append(msgs, m) =>
              MsgsGrow /\ Len(msgs') = Len(msgs) + 1 /\ msgs'[Len(msgs) + 1] = m
         /\ \A ms \in Seq(Message) : msgs' = msgs \o ms =>
              /\ MsgsGrow /\ Len(msgs') = Len(msgs) + Len(ms)
              /\ \A i \in (Len(msgs) + 1)..Len(msgs') : msgs'[i] = ms[i - Len(msgs)]
         /\ UNCHANGED msgs => MsgsGrow
<1>1. msgs \in Seq(Message) /\ Len(msgs) \in Nat  BY LenProperties DEF GraphTypeOK
<1>2. ASSUME NEW m \in Message, msgs' = Append(msgs, m)
      PROVE  MsgsGrow /\ Len(msgs') = Len(msgs) + 1 /\ msgs'[Len(msgs) + 1] = m
  <2>1. /\ Append(msgs, m) \in Seq(Message) /\ Len(Append(msgs, m)) = Len(msgs) + 1
        /\ \A i \in 1..Len(msgs) : Append(msgs, m)[i] = msgs[i]
        /\ Append(msgs, m)[Len(msgs) + 1] = m
    BY <1>1, AppendProperties
  <2>. QED  BY <1>1, <1>2, <2>1 DEF MsgsGrow
<1>3. ASSUME NEW ms \in Seq(Message), msgs' = msgs \o ms
      PROVE  /\ MsgsGrow /\ Len(msgs') = Len(msgs) + Len(ms)
             /\ \A i \in (Len(msgs) + 1)..Len(msgs') : msgs'[i] = ms[i - Len(msgs)]
  <2>1. Len(ms) \in Nat  BY LenProperties
  <2>2. /\ msgs' \in Seq(Message) /\ Len(msgs') = Len(msgs) + Len(ms)
        /\ \A i \in 1..(Len(msgs) + Len(ms)) :
             msgs'[i] = IF i <= Len(msgs) THEN msgs[i] ELSE ms[i - Len(msgs)]
    BY <1>1, <1>3, ConcatProperties
  <2>. QED  BY <1>1, <2>1, <2>2 DEF MsgsGrow
<1>. QED  BY <1>1, <1>2, <1>3 DEF MsgsGrow

\* With the memory unchanged, more messages change nothing for what is archived.
LEMMA Archived ==
  ASSUME Parameters, GraphInv, MsgsGrow, UNCHANGED memory
  PROVE  SummedUp' /\ CutRests'
<1>1. Len(msgs) \in Nat /\ Len(msgs') \in Nat  BY LenProperties DEF GraphInv, GraphTypeOK, MsgsGrow
<1>2. cut \in Nat /\ cut' = cut /\ summary' = summary  BY DEF GraphInv, GraphTypeOK, memory
<1>3. SummedUp'  BY <1>1, <1>2 DEF GraphInv, SummedUp, MsgsGrow, Parameters
<1>4. CutRests'
  <2>1. CASE cut = 0  BY <1>2, <2>1 DEF CutRests
  <2>2. CASE cut > 0
    <3>1. cut \in 1..Len(msgs) /\ Concluded(msgs[cut])  BY <1>1, <1>2, <2>2 DEF GraphInv, Shape, CutRests
    <3>2. msgs'[cut] = msgs[cut]  BY <3>1 DEF MsgsGrow
    <3>. QED  BY <1>1, <1>2, <3>1, <3>2 DEF CutRests, MsgsGrow, Concluded
  <2>. QED  BY <1>2, <2>1, <2>2
<1>. QED  BY <1>3, <1>4

\* What was asked for stays so.
LEMMA AskedGrows ==
  ASSUME GraphTypeOK, MsgsGrow
  PROVE  Asked \subseteq Asked'
<1>1. DOMAIN msgs = 1..Len(msgs) /\ DOMAIN msgs' = 1..Len(msgs') /\ Len(msgs) \in Nat /\ Len(msgs') \in Nat
  BY LenProperties DEF GraphTypeOK, MsgsGrow
<1>2. ASSUME NEW c \in Asked PROVE c \in Asked'
  <2>1. PICK i \in DOMAIN msgs : c \in ToSet(msgs[i].calls)  BY DEF Asked
  <2>2. i \in DOMAIN msgs' /\ msgs'[i] = msgs[i]  BY <1>1, <2>1 DEF MsgsGrow
  <2>3. c \in ToSet(msgs[i].calls)'  BY <2>1, <2>2 DEF ToSet
  <2>. QED  BY <1>2, <2>2, <2>3 DEF Asked
<1>. QED  BY <1>2

\* Nothing is carried out: what nobody asked for still has not been.
LEMMA StillUnasked ==
  ASSUME GraphInv, MsgsGrow, UNCHANGED effects
  PROVE  Unasked'
BY AskedGrows DEF GraphInv, Unasked

\* The initial state satisfies the invariant.
LEMMA GraphInvInit == ASSUME Parameters PROVE GraphInit => GraphInv
<1>. SUFFICES ASSUME GraphInit PROVE GraphInv  OBVIOUS
<1>1. msgs = <<>> /\ msgs \in Seq(Message) /\ Len(msgs) = 0 /\ run = Idle /\ cut = 0 /\ summary = {}
  BY EmptySeq DEF GraphInit
<1>2. Idle \in RunState /\ Idle.st = "idle"  BY EmptySeq DEF Idle, Start, RunState
<1>3. GraphTypeOK
  <2>1. effects \in [Calls -> Nat] /\ verdict \in [Calls -> Answers \cup {"none"}]
    BY DEF GraphInit
  <2>2. run \in RunState  BY <1>1, <1>2
  <2>3. {broken, thread, up} \subseteq BOOLEAN  BY DEF GraphInit
  <2>. QED  BY <1>1, <2>1, <2>2, <2>3 DEF GraphInit, GraphTypeOK, RunState
<1>4. AskOK /\ AnswersFit /\ ResultsKept  BY <1>1, <1>2 DEF AskOK, AnswersFit, ResultsKept, Asking
<1>5. Unasked /\ RiskyIsAnswered  BY DEF GraphInit, Unasked, RiskyIsAnswered
<1>6. SummedUp /\ CutRests /\ Backed /\ Resulted
  BY <1>1 DEF SummedUp, CutRests, Backed, Resulted
<1>. QED  BY <1>3, <1>4, <1>5, <1>6 DEF GraphInv, Shape

\* Only the server or the browser changed.
LEMMA Quiet ==
  ASSUME Parameters, GraphInv, UNCHANGED <<msgs, memory, run, deeds, broken>>, Rest'
  PROVE  GraphInv'
<1>1. GraphTypeOK'  BY DEF GraphInv, GraphTypeOK, Rest, memory, deeds
<1>2. AskOK'  BY DEF GraphInv, AskOK, Asking, Ask, Last
<1>3. AnswersFit'  BY DEF GraphInv, AnswersFit, Asking, Ask, Last, Hot, Rank, RankIn, deeds
<1>4. Unasked' /\ RiskyIsAnswered'  BY DEF GraphInv, Unasked, Asked, RiskyIsAnswered, deeds
<1>5. SummedUp'  BY DEF GraphInv, SummedUp, memory
<1>6. Backed' /\ CutRests'  BY DEF GraphInv, Shape, Backed, CutRests, memory
<1>7. ResultsKept' /\ Resulted'  BY DEF GraphInv, Shape, ResultsKept, Resulted, Asking, Ask, Last
<1>. QED  BY <1>1, <1>2, <1>3, <1>4, <1>5, <1>6, <1>7 DEF GraphInv, Shape

\* A run ends without more messages.  If its calls were not answered, that is remembered.
LEMMA Stops ==
  ASSUME Parameters, GraphInv, UNCHANGED <<msgs, memory, deeds>>, Rest', run' = Idle, broken' \in BOOLEAN,
         ~broken' => ~broken /\ ~Asking
  PROVE  GraphInv'
<1>1. run' \in RunState /\ run'.st = "idle"  BY EmptySeq DEF Idle, Start, RunState
<1>2. GraphTypeOK'  BY <1>1 DEF GraphInv, GraphTypeOK, Rest, RunState, memory, deeds
<1>3. AskOK' /\ AnswersFit' /\ ResultsKept'  BY <1>1 DEF AskOK, AnswersFit, ResultsKept, Asking
<1>4. Unasked' /\ RiskyIsAnswered'  BY DEF GraphInv, Unasked, Asked, RiskyIsAnswered, deeds
<1>5. SummedUp' /\ CutRests' /\ Backed'
  BY DEF GraphInv, Shape, SummedUp, CutRests, Backed, memory
<1>6. Resulted'  BY DEF GraphInv, Shape, Resulted
<1>. QED  BY <1>2, <1>3, <1>4, <1>5, <1>6 DEF GraphInv, Shape

-----------------------------------------------------------------------------
(* The proxy                                                               *)

\* The browser and the server come and go around the run.
LEMMA Around ==
  ASSUME Parameters, GraphInv,
         \/ Prepare \/ StreamEnd \/ Disconnect \/ ListRuns \/ JoinStream \/ Retry \/ ServerStarts
  PROVE  GraphInv'
<1>0. Rest  BY DEF GraphInv, GraphTypeOK, Rest
<1>1. CASE Prepare
  <2>1. faults' \in Nat  BY <1>0, <1>1 DEF Prepare, EnsureThread, Fails, Rest
  <2>2. thread \in BOOLEAN /\ up \in BOOLEAN  BY <1>0 DEF Rest
  <2>3. thread' \in BOOLEAN /\ up' = up /\ client' = "ready"
    BY <1>1, <2>2, Zenon DEF Prepare, EnsureThread
  <2>4. Rest'  BY <2>1, <2>2, <2>3 DEF Rest
  <2>. QED  BY <1>1, <2>4, Quiet DEF Prepare
<1>2. CASE StreamEnd
  <2>1. Rest'  BY <1>0, <1>2 DEF StreamEnd, Rest
  <2>. QED  BY <1>2, <2>1, Quiet DEF StreamEnd
<1>3. CASE Disconnect
  <2>1. Rest'  BY <1>0, <1>3 DEF Disconnect, Fails, Rest
  <2>. QED  BY <1>3, <2>1, Quiet DEF Disconnect
<1>4. CASE ListRuns
  <2>1. Rest'  BY <1>0, <1>4 DEF ListRuns, Ensured, Rest
  <2>. QED  BY <1>4, <2>1, Quiet DEF ListRuns
<1>5. CASE JoinStream
  <2>1. Rest'  BY <1>0, <1>5 DEF JoinStream, Rest
  <2>. QED  BY <1>5, <2>1, Quiet DEF JoinStream
<1>6. CASE Retry
  <2>1. Rest'  BY <1>0, <1>6 DEF Retry, Rest
  <2>. QED  BY <1>6, <2>1, Quiet DEF Retry
<1>7. CASE ServerStarts
  <2>1. Rest'  BY <1>0, <1>7 DEF ServerStarts, Rest
  <2>. QED  BY <1>7, <2>1, Quiet DEF ServerStarts
<1>. QED  BY <1>1, <1>2, <1>3, <1>4, <1>5, <1>6, <1>7

\* A halt stops an active run, and leaves any other as it is.
LEMMA Halted ==
  ASSUME Parameters, GraphInv, Halt, UNCHANGED <<msgs, memory, deeds>>, Rest'
  PROVE  GraphInv'
<1>1. broken \in BOOLEAN /\ broken' = (broken \/ run.st = "tools")  BY DEF Halt, GraphInv, GraphTypeOK
<1>2. CASE run.st \in Active
  <2>1. ~broken' => ~broken /\ ~Asking  BY <1>1, <1>2 DEF Asking, Active
  <2>2. run' = Idle /\ broken' \in BOOLEAN  BY <1>1, <1>2 DEF Halt
  <2>. QED  BY <2>1, <2>2, Stops
<1>3. CASE run.st \notin Active
  <2>1. UNCHANGED run  BY <1>3 DEF Halt
  <2>2. UNCHANGED broken  BY <1>1, <1>3 DEF Active
  <2>. QED  BY <2>1, <2>2, Quiet
<1>. QED  BY <1>2, <1>3

\* A run is cancelled, or the server stops, or the model fails.
LEMMA Stopping ==
  ASSUME Parameters, GraphInv, CancelRun \/ ServerStops \/ AgentError
  PROVE  GraphInv'
<1>0. Rest  BY DEF GraphInv, GraphTypeOK, Rest
<1>1. CASE CancelRun
  <2>1. Rest'  BY <1>0, <1>1 DEF CancelRun, Fails, Rest
  <2>2. UNCHANGED <<msgs, memory, deeds>>  BY <1>1 DEF CancelRun
  <2>3. CASE Halt  BY <2>1, <2>2, <2>3, Halted
  <2>4. CASE UNCHANGED <<run, broken>>  BY <2>1, <2>2, <2>4, Quiet
  <2>. QED  BY <1>1, <2>3, <2>4 DEF CancelRun
<1>2. CASE ServerStops
  <2>1. faults' \in Nat  BY <1>0, <1>2 DEF ServerStops, Fails, Rest
  <2>2. thread' \in BOOLEAN /\ up' \in BOOLEAN /\ UNCHANGED client  BY <1>2, Zenon DEF ServerStops
  <2>3. Rest'  BY <1>0, <2>1, <2>2 DEF Rest
  <2>. QED  BY <1>2, <2>3, Halted DEF ServerStops
<1>3. CASE AgentError
  <2>1. Rest'  BY <1>0, <1>3 DEF AgentError, Fails, Rest
  <2>2. broken \in BOOLEAN /\ ~Asking  BY <1>3 DEF AgentError, Asking, GraphInv, GraphTypeOK
  <2>. QED  BY <1>3, <2>1, <2>2, Stops DEF AgentError
<1>. QED  BY <1>1, <1>2, <1>3

\* A message that is not a result joins the others while no call waits for one.
LEMMA Appends ==
  ASSUME GraphInv, NEW m \in Message, msgs' = Append(msgs, m), m.kind # "tool",
         ~broken' => ~broken /\ ~Asking,
         m.kind = "ai" /\ m.calls # <<>> => Asking'
  PROVE  Backed' /\ Resulted'
<1>1. GraphTypeOK /\ Backed /\ Resulted  BY DEF GraphInv, Shape
<1>2. MsgsGrow /\ Len(msgs') = Len(msgs) + 1 /\ msgs'[Len(msgs) + 1] = m  BY <1>1, Growth
<1>3. Len(msgs) \in Nat  BY LenProperties DEF GraphInv, GraphTypeOK
<1>4. Backed'
  <2>1. SUFFICES ASSUME NEW i \in 1..Len(msgs'), msgs'[i].kind = "tool"
                 PROVE  \E j \in 1..(i - 1) :
                          /\ msgs'[j].kind = "ai" /\ msgs'[i].calls[1] \in ToSet(msgs'[j].calls)
                          /\ \A k \in (j + 1)..i : msgs'[k].kind = "tool"
    BY DEF Backed
  <2>2. i \in 1..Len(msgs) /\ msgs'[i] = msgs[i]  BY <1>2, <1>3, <2>1 DEF MsgsGrow
  <2>3. PICK j \in 1..(i - 1) :
          /\ msgs[j].kind = "ai" /\ msgs[i].calls[1] \in ToSet(msgs[j].calls)
          /\ \A k \in (j + 1)..i : msgs[k].kind = "tool"
    BY <1>1, <2>1, <2>2 DEF Backed
  <2>4. \A k \in 1..i : msgs'[k] = msgs[k]  BY <1>2, <1>3, <2>2 DEF MsgsGrow
  <2>5. msgs'[j] = msgs[j] /\ \A k \in (j + 1)..i : msgs'[k] = msgs[k]
    BY <1>3, <2>2, <2>3, <2>4
  <2>. QED  BY <2>2, <2>3, <2>5
<1>5. Resulted'
  <2>1. SUFFICES ASSUME ~broken', NEW i \in 1..Len(msgs'), msgs'[i].kind = "ai",
                        NEW c \in ToSet(msgs'[i].calls)
                 PROVE  \/ \E j \in (i + 1)..Len(msgs') : msgs'[j] = Tool(c)
                        \/ i = Len(msgs') /\ Asking'
    BY DEF Resulted
  <2>2. CASE i \in 1..Len(msgs)
    <3>1. msgs'[i] = msgs[i]  BY <1>2, <2>2 DEF MsgsGrow
    <3>2. PICK j \in (i + 1)..Len(msgs) : msgs[j] = Tool(c)
      BY <1>1, <2>1, <2>2, <3>1 DEF Resulted
    <3>3. j \in 1..Len(msgs) /\ j \in (i + 1)..Len(msgs')  BY <1>2, <1>3, <2>2, <3>2
    <3>. QED  BY <1>2, <3>2, <3>3 DEF MsgsGrow
  <2>3. CASE i = Len(msgs) + 1
    <3>1. msgs'[i] = m  BY <1>2, <2>3
    <3>2. m.calls # <<>>  BY <2>1, <3>1 DEF ToSet
    <3>. QED  BY <1>2, <2>1, <2>3, <3>1, <3>2
  <2>. QED  BY <1>2, <1>3, <2>2, <2>3
<1>. QED  BY <1>4, <1>5

\* A node starts afresh.
LEMMA NewCall ==
  ASSUME NEW st \in Active \cup {"idle", "interrupted"}, NEW ans \in Seq(Answers)
  PROVE  /\ Start(st, ans) \in RunState /\ Start(st, ans).st = st /\ Start(st, ans).answers = ans
         /\ Start(st, ans).pos = 1 /\ Start(st, ans).out = <<>>
<1>1. <<>> \in Seq(Message)  BY EmptySeq
<1>2. Start(st, ans) = [st |-> st, pos |-> 1, out |-> <<>>, answers |-> ans]  BY DEF Start
<1>. QED  BY <1>1, <1>2 DEF RunState

LEMMA FreshRun ==
  \A st \in Active \cup {"idle", "interrupted"} :
    /\ Start(st, <<>>) \in RunState /\ Start(st, <<>>).st = st
    /\ Start(st, <<>>).answers = <<>> /\ Start(st, <<>>).pos = 1 /\ Start(st, <<>>).out = <<>>
<1>1. <<>> \in Seq(Answers)  BY EmptySeq
<1>. QED  BY <1>1, NewCall

\* A run starts with a message of the user.
LEMMA InvNewInput ==
  ASSUME Parameters, GraphInv, run.st \notin Active, NewInput, UNCHANGED <<memory, risk, effects>>, Rest'
  PROVE  GraphInv'
<1>1. GraphTypeOK  BY DEF GraphInv
<1>2. Human \in Message /\ Human.kind = "human"  BY EmptySeq DEF Human, Message
<1>3. msgs' = Append(msgs, Human) /\ UNCHANGED verdict /\ run' = Start("compress", <<>>)
      /\ broken' = (broken \/ run.st = "interrupted")
  BY DEF NewInput
<1>4. MsgsGrow  BY <1>1, <1>2, <1>3, Growth
<1>5. run' \in RunState /\ run'.st = "compress"  BY <1>3, NewCall, EmptySeq DEF Active
<1>6. broken' \in BOOLEAN /\ (~broken' => ~broken /\ ~Asking)
  BY <1>1, <1>3 DEF Asking, Active, GraphTypeOK
<1>7. GraphTypeOK'  BY <1>1, <1>3, <1>4, <1>5, <1>6 DEF GraphTypeOK, Rest, RunState, memory, MsgsGrow
<1>8. AskOK' /\ AnswersFit' /\ ResultsKept'  BY <1>5 DEF AskOK, AnswersFit, ResultsKept, Asking
<1>9. Unasked' /\ SummedUp' /\ CutRests'  BY <1>4, StillUnasked, Archived
<1>10. RiskyIsAnswered'  BY <1>3 DEF GraphInv, RiskyIsAnswered
<1>11. Backed' /\ Resulted'  BY <1>2, <1>3, <1>6, Appends
<1>. QED  BY <1>7, <1>8, <1>9, <1>10, <1>11 DEF GraphInv, Shape

\* The facts about the last message that the tools node works on.
LEMMA Working ==
  ASSUME GraphInv, Asking
  PROVE  /\ msgs \in Seq(Message) /\ Len(msgs) \in Nat \ {0} /\ Last(msgs) = msgs[Len(msgs)]
         /\ msgs[Len(msgs)] \in Message /\ Ask \in Seq(Calls) /\ Len(Ask) \in Nat
         /\ \A i \in 1..Len(Ask) : Ask[i] \in Calls /\ Ask[i] \in Asked
         /\ run.pos \in Nat \ {0} /\ run.answers \in Seq(Answers)
         /\ Len(run.answers) \in Nat /\ run.out \in Seq(Message) /\ Len(run.out) \in Nat
<1>1. msgs \in Seq(Message) /\ Len(msgs) \in Nat \ {0}
  BY LenProperties DEF GraphInv, GraphTypeOK, AskOK
<1>2. Last(msgs) = msgs[Len(msgs)] /\ Len(msgs) \in DOMAIN msgs  BY <1>1, LenProperties DEF Last
<1>3. msgs[Len(msgs)] \in Message  BY <1>1, <1>2, ElementOfSeq
<1>4. Ask \in Seq(Calls) /\ Len(Ask) \in Nat  BY <1>2, <1>3, LenProperties DEF Ask, Message
<1>5. ASSUME NEW i \in 1..Len(Ask) PROVE Ask[i] \in Calls /\ Ask[i] \in Asked
  <2>1. Ask[i] \in Calls  BY <1>4, <1>5, ElementOfSeq
  <2>2. Ask[i] \in ToSet(msgs[Len(msgs)].calls)
    BY <1>2, <1>4, <1>5, LenProperties DEF Ask, ToSet
  <2>. QED  BY <1>2, <2>1, <2>2 DEF Asked
<1>6. run \in RunState  BY DEF GraphInv, GraphTypeOK, RunState
<1>. QED  BY <1>1, <1>2, <1>3, <1>4, <1>5, <1>6, LenProperties DEF RunState

\* A call that interrupts is at least the first to do so, and two of them have different numbers.
LEMMA Numbers ==
  ASSUME GraphInv, Asking
  PROVE  /\ \A i \in 1..Len(Ask) : Hot(i) => Rank(i) \in Nat \ {0}
         /\ \A i, j \in 1..Len(Ask) : Hot(i) /\ Hot(j) /\ Rank(i) = Rank(j) => i = j
<1>1. Len(Ask) \in Nat  BY Working
<1>2. ASSUME NEW i \in 1..Len(Ask), Hot(i) PROVE Rank(i) \in Nat \ {0}
  <2>1. risk[Ask[i]] # "safe" /\ i \in Nat \ {0}  BY <1>1, <1>2 DEF Hot
  <2>2. RankIn(risk, Ask, 0) = 0 /\ RankIn(risk, Ask, i) \in Nat  BY <2>1, RankStep
  <2>3. RankIn(risk, Ask, 0) < RankIn(risk, Ask, i)  BY <2>1, RankGrows
  <2>. QED  BY <2>2, <2>3 DEF Rank
<1>3. ASSUME NEW i \in 1..Len(Ask), NEW j \in 1..Len(Ask), Hot(i), Hot(j), i < j
      PROVE  Rank(i) # Rank(j)
  <2>1. i \in Nat /\ j \in Nat \ {0} /\ risk[Ask[j]] # "safe"  BY <1>1, <1>3 DEF Hot
  <2>2. Rank(i) < Rank(j)  BY <1>3, <2>1, RankGrows DEF Rank
  <2>3. Rank(i) \in Nat /\ Rank(j) \in Nat  BY <1>2, <1>3
  <2>. QED  BY <2>2, <2>3
<1>4. ASSUME NEW i \in 1..Len(Ask), NEW j \in 1..Len(Ask), Hot(i), Hot(j), Rank(i) = Rank(j)
      PROVE  i = j
  <2>1. ~(i < j) /\ ~(j < i)  BY <1>3, <1>4
  <2>. QED  BY <1>1, <2>1
<1>. QED  BY <1>2, <1>4

\* A run goes on with the answer to its interrupt.
LEMMA InvResume ==
  ASSUME Parameters, GraphInv, NEW decision \in Answers, Resume(decision),
         UNCHANGED <<memory, risk, effects>>, Rest'
  PROVE  GraphInv'
<1>. DEFINE c == Ask[run.pos]
            ans == Append(run.answers, decision)
            n == Len(run.answers)
<1>1. Asking /\ run.st = "interrupted" /\ UNCHANGED <<msgs, broken>>
      /\ verdict' = [verdict EXCEPT ![c] = decision] /\ run' = Start("tools", ans)
  BY DEF Resume, Asking, Ask
<1>2. /\ run.answers \in Seq(Answers) /\ n \in Nat /\ Len(Ask) \in Nat
      /\ \A i \in 1..Len(Ask) : Ask[i] \in Calls
      /\ Len(msgs) \in Nat \ {0} /\ msgs[Len(msgs)].kind = "ai"
  BY <1>1, Working DEF GraphInv, AskOK
<1>3. /\ ans \in Seq(Answers) /\ Len(ans) = n + 1 /\ ans[n + 1] = decision
      /\ \A i \in 1..n : ans[i] = run.answers[i]
  BY <1>2, AppendProperties
<1>4. run' \in RunState /\ run'.st = "tools" /\ run'.answers = ans /\ run'.pos = 1 /\ run'.out = <<>>
  BY <1>1, <1>3, NewCall DEF Active
<1>5. Hot(run.pos) /\ Rank(run.pos) = n + 1 /\ run.pos \in 1..Len(Ask)
  BY <1>1 DEF GraphInv, AnswersFit, Hot
<1>6. effects[c] = 0  BY <1>1, <1>2, <1>5 DEF GraphInv, AnswersFit
<1>7. verdict \in [Calls -> Answers \cup {"none"}] /\ c \in Calls
  BY <1>2, <1>5 DEF GraphInv, GraphTypeOK
<1>8. GraphTypeOK'
  <2>1. verdict' \in [Calls -> Answers \cup {"none"}]  BY <1>1, <1>7
  <2>. QED  BY <1>1, <1>4, <2>1 DEF GraphInv, GraphTypeOK, Rest, RunState, memory
<1>9. Ask' = Ask /\ Asking' /\ risk' = risk /\ effects' = effects
  BY <1>1, <1>4 DEF Ask, Last, Asking
<1>10. AskOK'
  <2>1. \A i, j \in 1..Len(Ask) : Ask[i] = Ask[j] => i = j  BY <1>1 DEF GraphInv, AskOK
  <2>. QED  BY <1>1, <1>2, <1>4, <1>9, <2>1 DEF AskOK
<1>11. AnswersFit'
  <2>1. RankIn(risk', Ask', run'.pos - 1) <= Len(run'.answers)
    <3>1. RankIn(risk, Ask, 0) = 0  BY RankStep
    <3>2. run'.pos - 1 = 0  BY <1>4
    <3>. QED  BY <1>2, <1>3, <1>4, <1>9, <3>1, <3>2
  <2>2. ASSUME NEW i \in 1..Len(Ask), Hot(i)
        PROVE  IF Rank(i) <= n + 1 THEN verdict'[Ask[i]] = ans[Rank(i)] ELSE effects[Ask[i]] = 0
    <3>1. Rank(i) \in Nat \ {0}  BY <1>1, <2>2, Numbers
    <3>2. CASE Rank(i) = n + 1
      <4>1. i = run.pos  BY <1>1, <1>5, <2>2, <3>2, Numbers
      <4>. QED  BY <1>1, <1>3, <1>7, <3>2, <4>1
    <3>3. CASE Rank(i) <= n
      <4>1. i # run.pos  BY <1>2, <1>5, <3>1, <3>3
      <4>2. Ask[i] # c  BY <1>1, <1>5, <2>2, <4>1 DEF GraphInv, AskOK
      <4>3. verdict'[Ask[i]] = verdict[Ask[i]]  BY <1>1, <1>2, <1>7, <4>2
      <4>4. verdict[Ask[i]] = run.answers[Rank(i)]  BY <1>1, <2>2, <3>3 DEF GraphInv, AnswersFit
      <4>5. Rank(i) \in 1..n  BY <1>2, <3>1, <3>3
      <4>. QED  BY <1>2, <1>3, <4>3, <4>4, <4>5
    <3>4. CASE Rank(i) > n + 1
      <4>1. effects[Ask[i]] = 0  BY <1>1, <1>2, <2>2, <3>1, <3>4 DEF GraphInv, AnswersFit
      <4>. QED  BY <1>2, <3>1, <3>4, <4>1
    <3>. QED  BY <1>2, <3>1, <3>2, <3>3, <3>4
  <2>. QED  BY <1>3, <1>4, <1>9, <2>1, <2>2 DEF AnswersFit, Hot, Rank
<1>12. Unasked'  BY <1>1 DEF GraphInv, Unasked, Asked
<1>13. RiskyIsAnswered'
  <2>1. SUFFICES ASSUME NEW d \in Calls, risk[d] = "risky", effects[d] > 0
                 PROVE  verdict'[d] \notin {"none", "reject"}
    BY DEF RiskyIsAnswered
  <2>2. d # c  BY <1>6, <2>1
  <2>. QED  BY <1>1, <1>7, <2>1, <2>2 DEF GraphInv, RiskyIsAnswered
<1>14. SummedUp' /\ CutRests' /\ Backed'
  BY <1>1 DEF GraphInv, Shape, SummedUp, CutRests, Backed, memory
<1>15. ResultsKept'  BY <1>4, EmptySeq DEF ResultsKept
<1>16. Resulted'  BY <1>1, <1>9 DEF GraphInv, Shape, Resulted
<1>. QED  BY <1>8, <1>10, <1>11, <1>12, <1>13, <1>14, <1>15, <1>16 DEF GraphInv, Shape

\* The proxy hands a run to the server, or the server's refusal to the browser.
LEMMA InvRunStream == ASSUME Parameters, GraphInv, RunStream PROVE GraphInv'
<1>1. Rest'  BY DEF RunStream, GraphInv, GraphTypeOK, Rest
<1>2. UNCHANGED <<memory, risk, effects>> /\ run.st \notin Active  BY DEF RunStream
<1>3. CASE NewInput  BY <1>1, <1>2, <1>3, InvNewInput
<1>4. ASSUME NEW decision \in Answers, Resume(decision) PROVE GraphInv'
  BY <1>1, <1>2, <1>4, InvResume
<1>5. CASE UNCHANGED <<msgs, run, broken, verdict>>
  BY <1>1, <1>2, <1>5, Quiet DEF deeds
<1>. QED  BY <1>3, <1>4, <1>5 DEF RunStream

-----------------------------------------------------------------------------
(* The graph                                                               *)

\* The compressor archives up to an answer that asks for nothing, or leaves the memory alone.
LEMMA InvCompressor == ASSUME Parameters, GraphInv, ContextCompressor PROVE GraphInv'
<1>1. /\ run.st = "compress" /\ run' = [run EXCEPT !.st = "agent"]
      /\ UNCHANGED <<msgs, deeds, broken, thread, up, client>>
  BY DEF ContextCompressor
<1>2. run \in RunState /\ msgs \in Seq(Message) /\ Len(msgs) \in Nat /\ cut \in Nat /\ summary = 1..cut
  BY LenProperties DEF GraphInv, GraphTypeOK, RunState, SummedUp
<1>3. run' \in RunState /\ run'.st = "agent" /\ ~Asking /\ ~Asking'
  BY <1>1, <1>2 DEF RunState, Active, Asking
<1>4. faults' \in Nat  BY DEF ContextCompressor, Fails, GraphInv, GraphTypeOK
<1>5. cut' \in Nat /\ summary' \in SUBSET Nat /\ SummedUp' /\ CutRests'
  <2>1. CASE SafeCut(msgs) > cut /\ Compress(SafeCut(msgs))
    <3>. DEFINE safe == SafeCut(msgs)
    <3>1. safe \in Nat /\ safe > cut /\ safe \in 1..Len(msgs) /\ safe + KeepRecent <= Len(msgs)
          /\ Concluded(msgs[safe])
      BY <1>2, <2>1, CutFound DEF Parameters
    <3>2. cut' = safe /\ summary' = (1..cut) \cup ((cut + 1)..safe)  BY <1>2, <2>1 DEF Compress
    <3>. HIDE DEF safe
    <3>3. summary' = 1..safe  BY <1>2, <3>1, <3>2
    <3>. QED  BY <1>1, <3>1, <3>2, <3>3 DEF SummedUp, CutRests, Concluded
  <2>2. CASE UNCHANGED memory
    <3>1. MsgsGrow  BY <1>1, Growth DEF GraphInv
    <3>2. SummedUp' /\ CutRests'  BY <2>2, <3>1, Archived
    <3>. QED  BY <1>2, <2>2, <3>2 DEF memory, GraphInv, GraphTypeOK
  <2>. QED  BY <2>1, <2>2 DEF ContextCompressor
<1>6. GraphTypeOK'  BY <1>1, <1>3, <1>4, <1>5 DEF GraphInv, GraphTypeOK, RunState, deeds
<1>7. AskOK' /\ AnswersFit' /\ ResultsKept'
  BY <1>3 DEF AskOK, AnswersFit, ResultsKept, Asking
<1>8. Unasked' /\ RiskyIsAnswered'  BY <1>1 DEF GraphInv, Unasked, Asked, RiskyIsAnswered, deeds
<1>9. Backed' /\ Resulted'  BY <1>1, <1>3 DEF GraphInv, Shape, Backed, Resulted
<1>. QED  BY <1>5, <1>6, <1>7, <1>8, <1>9 DEF GraphInv, Shape

\* The model answers, or asks for calls that were not asked for before.
LEMMA InvAgent == ASSUME Parameters, GraphInv, AgentNode PROVE GraphInv'
<1>1. /\ run.st = "agent" /\ UNCHANGED <<memory, deeds, broken, thread, up, client, faults>>
  BY DEF AgentNode
<1>2. PICK cs \in {<<>>} \cup {<<c>> : c \in Calls \ Asked}
                  \cup {<<c, d>> : c \in Calls \ Asked, d \in Calls \ Asked} :
        /\ Len(cs) = 2 => cs[1] # cs[2]
        /\ msgs' = Append(msgs, Ai(cs))
        /\ run' = Start(Route(Ai(cs)), <<>>)
  BY DEF AgentNode
<1>3. /\ cs \in Seq(Calls) /\ Len(cs) \in Nat
      /\ \A i, j \in 1..Len(cs) : cs[i] = cs[j] => i = j
      /\ \A i \in 1..Len(cs) : cs[i] \in Calls \ Asked
  <2>1. CASE cs = <<>>  BY <2>1, EmptySeq
  <2>2. CASE \E c \in Calls \ Asked : cs = <<c>>  BY <2>2
  <2>3. CASE \E c \in Calls \ Asked, d \in Calls \ Asked : cs = <<c, d>>
    <3>1. PICK c \in Calls \ Asked, d \in Calls \ Asked : cs = <<c, d>>  BY <2>3
    <3>2. Len(cs) = 2 /\ cs[1] = c /\ cs[2] = d /\ cs \in Seq(Calls)  BY <3>1
    <3>. QED  BY <1>2, <3>2
  <2>. QED  BY <1>2, <2>1, <2>2, <2>3
<1>4. GraphTypeOK /\ msgs \in Seq(Message) /\ Len(msgs) \in Nat /\ ~Asking
  BY <1>1, LenProperties DEF GraphInv, GraphTypeOK, Asking
<1>5. Ai(cs) \in Message /\ Ai(cs).kind = "ai" /\ Ai(cs).calls = cs  BY <1>3 DEF Ai, Message
<1>6. MsgsGrow /\ Len(msgs') = Len(msgs) + 1 /\ msgs'[Len(msgs) + 1] = Ai(cs)
  BY <1>2, <1>4, <1>5, Growth
<1>7. /\ run' \in RunState /\ run'.pos = 1 /\ run'.out = <<>> /\ run'.answers = <<>>
      /\ run'.st = IF cs # <<>> THEN "tools" ELSE "idle"
  <2>1. Route(Ai(cs)) \in Active \cup {"idle", "interrupted"}  BY DEF Route, Active
  <2>2. Route(Ai(cs)) = IF cs # <<>> THEN "tools" ELSE "idle"  BY <1>5 DEF Route
  <2>3. run' = Start(Route(Ai(cs)), <<>>)  BY <1>2
  <2>. HIDE <1>2
  <2>. QED  BY <2>1, <2>2, <2>3, FreshRun
<1>8. GraphTypeOK'
  BY <1>1, <1>4, <1>6, <1>7 DEF GraphTypeOK, RunState, memory, deeds, MsgsGrow
<1>9. Ask' = cs /\ Len(msgs') > 0 /\ msgs'[Len(msgs')].kind = "ai"
  <2>1. Last(msgs') = msgs'[Len(msgs')]  BY DEF Last
  <2>. QED  BY <1>4, <1>5, <1>6, <2>1 DEF Ask
<1>10. risk' = risk /\ effects' = effects /\ verdict' = verdict  BY <1>1 DEF deeds
<1>11. AskOK'  BY <1>3, <1>7, <1>9 DEF AskOK
<1>12. AnswersFit'
  <2>1. Len(run'.answers) = 0 /\ run'.pos - 1 = 0 /\ run'.st # "interrupted"  BY <1>7, EmptySeq
  <2>2. RankIn(risk, cs, 0) = 0  BY RankStep
  <2>3. ASSUME NEW i \in 1..Len(cs), risk[cs[i]] # "safe"
        PROVE  ~(RankIn(risk, cs, i) <= 0) /\ effects[cs[i]] = 0
    <3>1. i \in Nat \ {0}  BY <1>3
    <3>2. RankIn(risk, cs, 0) < RankIn(risk, cs, i)  BY <2>3, <3>1, RankGrows
    <3>3. RankIn(risk, cs, i) \in Nat  BY <3>1, RankStep
    <3>4. effects[cs[i]] = 0  BY <1>3 DEF GraphInv, Unasked
    <3>. QED  BY <2>2, <3>2, <3>3, <3>4
  <2>. QED  BY <1>9, <1>10, <2>1, <2>2, <2>3 DEF AnswersFit, Hot, Rank
<1>13. Unasked'  BY <1>6, <1>10, StillUnasked
<1>14. RiskyIsAnswered'  BY <1>10 DEF GraphInv, RiskyIsAnswered
<1>15. SummedUp' /\ CutRests'  BY <1>1, <1>6, Archived
<1>16. ResultsKept'  BY <1>7, EmptySeq DEF ResultsKept
<1>17. Backed' /\ Resulted'
  <2>1. cs # <<>> => Asking'  BY <1>7 DEF Asking
  <2>. QED  BY <1>1, <1>2, <1>4, <1>5, <2>1, Appends
<1>. QED  BY <1>8, <1>11, <1>12, <1>13, <1>14, <1>15, <1>16, <1>17 DEF GraphInv, Shape

\* The tools node and its current call.
LEMMA AtCall ==
  ASSUME GraphInv, InTools
  PROVE  /\ Asking /\ run.pos \in 1..Len(Ask) /\ Call = Ask[run.pos] /\ Call \in Calls /\ Call \in Asked
         /\ Number = Rank(run.pos) /\ (Risky <=> Hot(run.pos))
         /\ Rank(run.pos - 1) \in Nat /\ Rank(run.pos - 1) <= Len(run.answers) /\ Rank(run.pos) \in Nat
         /\ Rank(run.pos) = Rank(run.pos - 1) + IF Risky THEN 1 ELSE 0
<1>1. Asking /\ run.st = "tools"  BY DEF InTools, Asking
<1>2. run.pos \in Nat \ {0} /\ Len(Ask) \in Nat  BY <1>1, Working
<1>3. run.pos \in 1..Len(Ask) /\ Call = Ask[run.pos]  BY <1>2 DEF InTools, Ask, Call
<1>4. Call \in Calls /\ Call \in Asked  BY <1>1, <1>3, Working
<1>5. Number = Rank(run.pos)  BY DEF Number, Rank, RankIn, Ask
<1>6. Risky <=> Hot(run.pos)  BY <1>3 DEF Risky, Hot
<1>7. /\ Rank(run.pos - 1) \in Nat /\ Rank(run.pos) \in Nat
      /\ Rank(run.pos) = Rank(run.pos - 1) + IF Risky THEN 1 ELSE 0
  BY <1>2, <1>3, RankStep DEF Rank, Risky
<1>8. Rank(run.pos - 1) <= Len(run.answers)  BY <1>1 DEF GraphInv, AnswersFit
<1>. QED  BY <1>1, <1>3, <1>4, <1>5, <1>6, <1>7, <1>8

\* The run waits for the answer to its current call.
LEMMA InvInterrupt == ASSUME Parameters, GraphInv, Interrupt PROVE GraphInv'
<1>1. /\ InTools /\ Risky /\ ~Known /\ run' = [run EXCEPT !.st = "interrupted", !.out = <<>>]
      /\ UNCHANGED <<msgs, memory, deeds, broken, thread, up, client, faults>>
  BY DEF Interrupt
<1>2. run \in RunState /\ run.st = "tools"  BY <1>1 DEF GraphInv, GraphTypeOK, RunState, InTools
<1>3. /\ run' \in RunState /\ run'.st = "interrupted" /\ run'.pos = run.pos
      /\ run'.answers = run.answers
  <2>1. <<>> \in Seq(Message)  BY EmptySeq
  <2>. QED  BY <1>1, <1>2, <2>1 DEF RunState
<1>4. Asking /\ Asking' /\ Ask' = Ask /\ risk' = risk /\ effects' = effects /\ verdict' = verdict
  BY <1>1, <1>2, <1>3 DEF Asking, Ask, Last, deeds
<1>5. Rank(run.pos) = Len(run.answers) + 1 /\ Hot(run.pos)
  <2>1. Len(run.answers) \in Nat  BY <1>4, Working
  <2>. QED  BY <1>1, <2>1, AtCall DEF Known
<1>6. GraphTypeOK'  BY <1>1, <1>3 DEF GraphInv, GraphTypeOK, RunState, memory, deeds
<1>7. AskOK'
  <2>1. AskOK /\ UNCHANGED msgs  BY <1>1 DEF GraphInv
  <2>. QED  BY <1>3, <1>4, <2>1 DEF AskOK
<1>8. AnswersFit'
  <2>1. AnswersFit  BY DEF GraphInv
  <2>. QED  BY <1>3, <1>4, <1>5, <2>1 DEF AnswersFit, Hot, Rank
<1>9. Unasked' /\ RiskyIsAnswered'  BY <1>1, <1>4 DEF GraphInv, Unasked, Asked, RiskyIsAnswered
<1>10. SummedUp' /\ CutRests' /\ Backed'
  BY <1>1 DEF GraphInv, Shape, SummedUp, CutRests, Backed, memory
<1>11. ResultsKept' /\ Resulted'  BY <1>1, <1>3, <1>4 DEF GraphInv, Shape, ResultsKept, Resulted
<1>. QED  BY <1>6, <1>7, <1>8, <1>9, <1>10, <1>11 DEF GraphInv, Shape

\* The node is done with a call that may go on: its result joins the others.
LEMMA InvResult ==
  ASSUME Parameters, GraphInv, InTools, Risky => Known, Result,
         UNCHANGED <<msgs, memory, risk, verdict, broken, thread, up, client, faults>>,
         \/ UNCHANGED effects
         \/ /\ effects' = [effects EXCEPT ![Call] = @ + 1]
            /\ risk[Call] = "risky" => verdict[Call] \notin {"none", "reject"}
  PROVE  GraphInv'
<1>1. run \in RunState /\ run.st = "tools" /\ effects \in [Calls -> Nat]
  BY DEF GraphInv, GraphTypeOK, RunState, InTools
<1>2. /\ Asking /\ run.pos \in 1..Len(Ask) /\ Call = Ask[run.pos] /\ Call \in Calls /\ Call \in Asked
      /\ Rank(run.pos) \in Nat /\ Rank(run.pos) <= Len(run.answers)
  <2>1. Len(run.answers) \in Nat  BY AtCall, Working
  <2>. QED  BY <2>1, AtCall DEF Known
<1>3. /\ run.out \in Seq(Message) /\ Len(run.out) \in Nat /\ Len(Ask) \in Nat /\ Len(msgs) \in Nat \ {0}
      /\ \A i \in 1..Len(Ask) : Ask[i] \in Calls
  BY <1>2, Working
<1>4. Tool(Call) \in Message  BY <1>2 DEF Tool, Message
<1>5. /\ Append(run.out, Tool(Call)) \in Seq(Message)
      /\ Len(Append(run.out, Tool(Call))) = Len(run.out) + 1
      /\ \A i \in 1..Len(run.out) : Append(run.out, Tool(Call))[i] = run.out[i]
      /\ Append(run.out, Tool(Call))[Len(run.out) + 1] = Tool(Call)
  BY <1>3, <1>4, AppendProperties
<1>6. run' = [run EXCEPT !.pos = run.pos + 1, !.out = Append(run.out, Tool(Call))]  BY DEF Result
<1>7. /\ run' \in RunState /\ run'.st = "tools" /\ run'.pos = run.pos + 1
      /\ run'.out = Append(run.out, Tool(Call)) /\ run'.answers = run.answers
  <2>1. run.pos + 1 \in Nat \ {0}  BY <1>2, <1>3
  <2>. DEFINE p == run.pos + 1
              o == Append(run.out, Tool(Call))
  <2>2. p \in Nat \ {0} /\ o \in Seq(Message) /\ run \in RunState /\ run.st = "tools"
    BY <1>1, <1>5, <2>1
  <2>3. run' = [run EXCEPT !.pos = p, !.out = o]  BY <1>6
  <2>. HIDE DEF p, o
  <2>4. run' \in RunState /\ run'.st = "tools" /\ run'.pos = p /\ run'.out = o
        /\ run'.answers = run.answers
    BY <2>2, <2>3 DEF RunState
  <2>. QED  BY <2>4 DEF p, o
<1>8. Asking' /\ Ask' = Ask  BY <1>7 DEF Asking, Ask, Last
<1>9. effects' \in [Calls -> Nat] /\ \A c \in Calls : c # Call => effects'[c] = effects[c]
  BY <1>1, <1>2
<1>10. GraphTypeOK'  BY <1>7, <1>9 DEF GraphInv, GraphTypeOK, RunState, memory
<1>11. AskOK'
  <2>1. AskOK  BY DEF GraphInv
  <2>. QED  BY <1>2, <1>3, <1>7, <1>8, <2>1 DEF AskOK
<1>12. AnswersFit'
  <2>1. RankIn(risk, Ask, run'.pos - 1) <= Len(run'.answers)
    <3>1. run'.pos - 1 = run.pos  BY <1>2, <1>3, <1>7
    <3>. QED  BY <1>2, <1>7, <3>1 DEF Rank
  <2>2. ASSUME NEW i \in 1..Len(Ask), Hot(i)
        PROVE  IF Rank(i) <= Len(run.answers)
               THEN verdict[Ask[i]] = run.answers[Rank(i)]
               ELSE effects'[Ask[i]] = 0
    <3>1. CASE Rank(i) <= Len(run.answers)  BY <1>2, <2>2, <3>1 DEF GraphInv, AnswersFit
    <3>2. CASE ~(Rank(i) <= Len(run.answers))
      <4>1. i # run.pos  BY <1>2, <3>2
      <4>2. Ask[i] # Call  BY <1>2, <2>2, <4>1 DEF GraphInv, AskOK
      <4>3. effects[Ask[i]] = 0  BY <1>2, <2>2, <3>2 DEF GraphInv, AnswersFit
      <4>. QED  BY <1>3, <1>9, <2>2, <3>2, <4>2, <4>3
    <3>. QED  BY <3>1, <3>2
  <2>. QED  BY <1>7, <1>8, <2>1, <2>2 DEF AnswersFit, Hot, Rank
<1>13. Unasked'  BY <1>2, <1>9 DEF GraphInv, Unasked, Asked
<1>14. RiskyIsAnswered'
  <2>1. ASSUME NEW c \in Calls, risk[c] = "risky", effects'[c] > 0
        PROVE  verdict[c] \notin {"none", "reject"}
    <3>1. CASE UNCHANGED effects  BY <2>1, <3>1 DEF GraphInv, RiskyIsAnswered
    <3>2. CASE c = Call /\ ~UNCHANGED effects  BY <2>1, <3>2
    <3>3. CASE c # Call  BY <1>9, <2>1, <3>3 DEF GraphInv, RiskyIsAnswered
    <3>. QED  BY <3>1, <3>2, <3>3
  <2>. QED  BY <2>1 DEF RiskyIsAnswered
<1>15. SummedUp' /\ CutRests' /\ Backed'
  BY DEF GraphInv, Shape, SummedUp, CutRests, Backed, memory
<1>16. ResultsKept'
  <2>1. Len(run.out) = run.pos - 1 /\ \A k \in 1..(run.pos - 1) : run.out[k] = Tool(Ask[k])
    BY <1>1 DEF GraphInv, Shape, ResultsKept
  <2>2. Len(run'.out) = run'.pos - 1 /\ run'.pos - 1 = run.pos
    <3>1. run.pos \in Nat \ {0}  BY <1>2, Working
    <3>2. Len(run'.out) = Len(run.out) + 1 /\ run'.pos = run.pos + 1  BY <1>5, <1>7
    <3>. QED  BY <2>1, <3>1, <3>2
  <2>3. ASSUME NEW k \in 1..run.pos PROVE run'.out[k] = Tool(Ask[k])
    <3>1. CASE k \in 1..(run.pos - 1)  BY <1>3, <1>5, <1>7, <2>1, <3>1
    <3>2. CASE k = Len(run.out) + 1
      <4>1. k = run.pos  BY <1>2, <1>3, <2>1, <3>2
      <4>. QED  BY <1>2, <1>5, <1>7, <3>2, <4>1
    <3>. QED  BY <1>2, <1>3, <2>1, <3>1, <3>2
  <2>. QED  BY <1>8, <2>2, <2>3 DEF ResultsKept
<1>17. Resulted'  BY <1>2, <1>8 DEF GraphInv, Shape, Resulted
<1>. QED  BY <1>10, <1>11, <1>12, <1>13, <1>14, <1>15, <1>16, <1>17 DEF GraphInv, Shape

\* A call is carried out: if it is risky, its own interrupt was answered, and not by a refusal.
LEMMA InvCall == ASSUME Parameters, GraphInv, Refuse \/ FillForm \/ Dispatch PROVE GraphInv'
<1>1. InTools /\ (Risky => Known) /\ Result
      /\ UNCHANGED <<msgs, memory, risk, verdict, broken, thread, up, client, faults>>
  BY DEF Refuse, FillForm, Dispatch, Risky, deeds
<1>2. CASE Refuse \/ FillForm
  <2>1. UNCHANGED effects  BY <1>2 DEF Refuse, FillForm, deeds
  <2>. QED  BY <1>1, <2>1, InvResult
<1>3. CASE Dispatch
  <2>1. ASSUME risk[Call] = "risky" PROVE verdict[Call] \notin {"none", "reject"}
    <3>1. Risky /\ Known /\ Answer # "reject"  BY <1>3, <2>1 DEF Dispatch, Risky, Approves
    <3>2. /\ Asking /\ run.pos \in 1..Len(Ask) /\ Call = Ask[run.pos] /\ Number = Rank(run.pos)
          /\ Hot(run.pos)
      BY <1>1, <3>1, AtCall
    <3>3. verdict[Ask[run.pos]] = run.answers[Rank(run.pos)]
      BY <3>1, <3>2 DEF GraphInv, AnswersFit, Known
    <3>4. Rank(run.pos) \in 1..Len(run.answers) /\ run.answers \in Seq(Answers)
      <4>1. Rank(run.pos) \in Nat \ {0}  BY <3>2, Numbers
      <4>. QED  BY <3>1, <3>2, <4>1, Working DEF Known
    <3>5. run.answers[Rank(run.pos)] \in Answers  BY <3>4, ElementOfSeq
    <3>. QED  BY <3>1, <3>2, <3>3, <3>5 DEF Answer, Answers
  <2>2. effects' = [effects EXCEPT ![Call] = @ + 1]  BY <1>3 DEF Dispatch
  <2>. QED  BY <1>1, <2>1, <2>2, InvResult
<1>. QED  BY <1>2, <1>3

\* The node ends: the results follow the message that asked for them.
LEMMA InvToolsEnd == ASSUME Parameters, GraphInv, ToolsEnd PROVE GraphInv'
<1>1. /\ run.st = "tools" /\ Asking /\ run.pos > Len(Ask) /\ msgs' = msgs \o run.out
      /\ run' = Start("agent", <<>>)
      /\ UNCHANGED <<memory, deeds, broken, thread, up, client, faults>>
  BY DEF ToolsEnd, Ask, Asking
<1>2. /\ run.out \in Seq(Message) /\ Len(run.out) \in Nat /\ Len(Ask) \in Nat /\ Len(msgs) \in Nat \ {0}
      /\ run.pos \in Nat \ {0} /\ Ask = msgs[Len(msgs)].calls /\ msgs[Len(msgs)].kind = "ai"
      /\ Ask \in Seq(Calls)
  BY <1>1, Working DEF GraphInv, AskOK, Ask
<1>3. run.pos = Len(Ask) + 1  BY <1>1, <1>2 DEF GraphInv, AskOK
<1>4. Len(run.out) = Len(Ask) /\ \A k \in 1..Len(Ask) : run.out[k] = Tool(Ask[k])
  BY <1>1, <1>2, <1>3 DEF GraphInv, Shape, ResultsKept
<1>5. /\ MsgsGrow /\ Len(msgs') = Len(msgs) + Len(Ask)
      /\ \A i \in (Len(msgs) + 1)..Len(msgs') : msgs'[i] = run.out[i - Len(msgs)]
  BY <1>1, <1>2, <1>4, Growth DEF GraphInv
<1>6. \A k \in 1..Len(Ask) : msgs'[Len(msgs) + k] = Tool(Ask[k])
  <2>1. TAKE k \in 1..Len(Ask)
  <2>2. Len(msgs) + k \in (Len(msgs) + 1)..Len(msgs') /\ (Len(msgs) + k) - Len(msgs) = k
    BY <1>2, <1>5
  <2>3. msgs'[Len(msgs) + k] = run.out[k]  BY <1>5, <2>2
  <2>. QED  BY <1>4, <2>3
<1>7. run' \in RunState /\ run'.st = "agent" /\ ~Asking'
  BY <1>1, FreshRun DEF Active, Asking
<1>8. GraphTypeOK'  BY <1>1, <1>5, <1>7 DEF GraphInv, GraphTypeOK, RunState, MsgsGrow, memory, deeds
<1>9. AskOK' /\ AnswersFit' /\ ResultsKept'  BY <1>7 DEF AskOK, AnswersFit, ResultsKept
<1>10. Unasked' /\ RiskyIsAnswered'
  <2>1. risk' = risk /\ effects' = effects /\ verdict' = verdict  BY <1>1 DEF deeds
  <2>. QED  BY <1>5, <2>1, StillUnasked DEF GraphInv, RiskyIsAnswered
<1>11. SummedUp' /\ CutRests'  BY <1>1, <1>5, Archived
<1>12. Backed'
  <2>1. SUFFICES ASSUME NEW i \in 1..Len(msgs'), msgs'[i].kind = "tool"
                 PROVE  \E j \in 1..(i - 1) :
                          /\ msgs'[j].kind = "ai" /\ msgs'[i].calls[1] \in ToSet(msgs'[j].calls)
                          /\ \A k \in (j + 1)..i : msgs'[k].kind = "tool"
    BY DEF Backed
  <2>2. CASE i \in 1..Len(msgs)
    <3>1. msgs'[i] = msgs[i]  BY <1>5, <2>2 DEF MsgsGrow
    <3>2. PICK j \in 1..(i - 1) :
            /\ msgs[j].kind = "ai" /\ msgs[i].calls[1] \in ToSet(msgs[j].calls)
            /\ \A k \in (j + 1)..i : msgs[k].kind = "tool"
      BY <2>1, <2>2, <3>1 DEF GraphInv, Shape, Backed
    <3>3. \A k \in 1..i : msgs'[k] = msgs[k]  BY <1>2, <1>5, <2>2 DEF MsgsGrow
    <3>4. msgs'[j] = msgs[j] /\ \A k \in (j + 1)..i : msgs'[k] = msgs[k]
      BY <1>2, <2>2, <3>2, <3>3
    <3>. QED  BY <3>1, <3>2, <3>4
  <2>3. CASE i \in (Len(msgs) + 1)..Len(msgs')
    <3>1. PICK n \in 1..Len(Ask) : i = Len(msgs) + n
      <4>1. i - Len(msgs) \in 1..Len(Ask) /\ i = Len(msgs) + (i - Len(msgs))  BY <1>2, <1>5, <2>3
      <4>. QED  BY <4>1
    <3>2. msgs'[i] = Tool(Ask[n])  BY <1>6, <3>1
    <3>3. msgs'[i].calls[1] \in ToSet(Ask)  BY <1>2, <3>2, LenProperties DEF Tool, ToSet
    <3>4. msgs'[Len(msgs)] = msgs[Len(msgs)]  BY <1>2, <1>5 DEF MsgsGrow
    <3>5. ASSUME NEW k \in (Len(msgs) + 1)..i PROVE msgs'[k].kind = "tool"
      <4>1. k - Len(msgs) \in 1..Len(Ask) /\ k = Len(msgs) + (k - Len(msgs))  BY <1>2, <3>1
      <4>2. msgs'[k] = Tool(Ask[k - Len(msgs)])  BY <1>6, <4>1
      <4>. QED  BY <4>2 DEF Tool
    <3>6. Len(msgs) \in 1..(i - 1)  BY <1>2, <3>1
    <3>. QED  BY <1>2, <3>3, <3>4, <3>5, <3>6
  <2>. QED  BY <1>2, <1>5, <2>2, <2>3
<1>13. Resulted'
  <2>1. SUFFICES ASSUME ~broken, NEW i \in 1..Len(msgs'), msgs'[i].kind = "ai",
                        NEW c \in ToSet(msgs'[i].calls)
                 PROVE  \E j \in (i + 1)..Len(msgs') : msgs'[j] = Tool(c)
    BY <1>1 DEF Resulted
  <2>2. CASE i \in 1..Len(msgs)
    <3>1. msgs'[i] = msgs[i]  BY <1>5, <2>2 DEF MsgsGrow
    <3>2. \/ \E j \in (i + 1)..Len(msgs) : msgs[j] = Tool(c)
          \/ i = Len(msgs)
      BY <2>1, <2>2, <3>1 DEF GraphInv, Shape, Resulted
    <3>3. CASE \E j \in (i + 1)..Len(msgs) : msgs[j] = Tool(c)
      <4>1. PICK j \in (i + 1)..Len(msgs) : msgs[j] = Tool(c)  BY <3>3
      <4>2. j \in 1..Len(msgs) /\ j \in (i + 1)..Len(msgs')  BY <1>2, <1>5, <2>2, <4>1
      <4>. QED  BY <1>5, <4>1, <4>2 DEF MsgsGrow
    <3>4. CASE i = Len(msgs)
      <4>1. PICK n \in 1..Len(Ask) : c = Ask[n]
        BY <1>2, <2>1, <3>1, <3>4, LenProperties DEF ToSet
      <4>2. msgs'[Len(msgs) + n] = Tool(c)  BY <1>6, <4>1
      <4>3. Len(msgs) + n \in (i + 1)..Len(msgs')  BY <1>2, <1>5, <3>4, <4>1
      <4>. QED  BY <4>2, <4>3
    <3>. QED  BY <3>2, <3>3, <3>4
  <2>3. CASE i \in (Len(msgs) + 1)..Len(msgs')
    <3>1. i - Len(msgs) \in 1..Len(Ask) /\ i = Len(msgs) + (i - Len(msgs))  BY <1>2, <1>5, <2>3
    <3>2. msgs'[i] = Tool(Ask[i - Len(msgs)])  BY <1>6, <3>1
    <3>. QED  BY <2>1, <3>2 DEF Tool
  <2>. QED  BY <1>2, <1>5, <2>2, <2>3
<1>. QED  BY <1>8, <1>9, <1>10, <1>11, <1>12, <1>13 DEF GraphInv, Shape

-----------------------------------------------------------------------------
(* Theorems                                                                *)

\* Every step keeps the inductive invariant.
LEMMA GraphInvNext == ASSUME Parameters PROVE GraphInv /\ [GraphNext]_graphVars => GraphInv'
<1>. SUFFICES ASSUME GraphInv, [GraphNext]_graphVars PROVE GraphInv'  OBVIOUS
<1>1. CASE Graph
  BY <1>1, InvCompressor, InvAgent, InvInterrupt, InvCall, InvToolsEnd DEF Graph, ToolsNode
<1>2. CASE AgentError  BY <1>2, Stopping
<1>3. CASE Proxy  BY <1>3, Around, InvRunStream, Stopping DEF Proxy
<1>4. CASE UNCHANGED graphVars
  <2>1. UNCHANGED <<msgs, memory, run, deeds, broken>> /\ UNCHANGED <<thread, up, client, faults>>
    BY <1>4 DEF graphVars, memory, deeds
  <2>2. Rest'  BY <2>1 DEF GraphInv, GraphTypeOK, Rest
  <2>. QED  BY <2>1, <2>2, Quiet
<1>. QED  BY <1>1, <1>2, <1>3, <1>4 DEF GraphNext

LEMMA GraphInvariant == ASSUME Parameters PROVE GraphInit /\ [][GraphNext]_graphVars => []GraphInv
BY GraphInvInit, GraphInvNext, PTL

\* What is left of a sequence after its first k messages.
LEMMA AfterCut ==
  ASSUME NEW ms \in Seq(Message), NEW k \in 1..(Len(ms) - 1)
  PROVE  /\ SubSeq(ms, k + 1, Len(ms)) \in Seq(Message)
         /\ Len(SubSeq(ms, k + 1, Len(ms))) = Len(ms) - k
         /\ \A i \in 1..(Len(ms) - k) : SubSeq(ms, k + 1, Len(ms))[i] = ms[k + i]
<1>. DEFINE m == k + 1
            n == Len(ms)
<1>1. n \in Nat /\ k \in Nat /\ m \in Int /\ m <= n /\ n - m + 1 = n - k  BY LenProperties
<1>2. \A i \in m..n : ms[i] \in Message
  <2>1. \A i \in m..n : i \in 1..Len(ms)  BY <1>1
  <2>. QED  BY <2>1, ElementOfSeq
<1>3. \A i \in 1..(n - k) : m + i - 1 = k + i  BY <1>1
<1>4. /\ SubSeq(ms, m, n) \in Seq(Message)
      /\ Len(SubSeq(ms, m, n)) = IF m <= n THEN n - m + 1 ELSE 0
      /\ \A i \in 1..(n - m + 1) : SubSeq(ms, m, n)[i] = ms[m + i - 1]
  <2>1. n \in Int  BY <1>1
  <2>. HIDE DEF m, n
  <2>. QED  BY <1>1, <1>2, <2>1, SubSeqProperties
<1>5. \A i \in 1..(n - k) : SubSeq(ms, m, n)[i] = ms[k + i]
  <2>. HIDE DEF m, n
  <2>. QED  BY <1>1, <1>3, <1>4
<1>6. Len(SubSeq(ms, m, n)) = n - k
  <2>. HIDE DEF m, n
  <2>. QED  BY <1>1, <1>4
<1>. QED  BY <1>4, <1>5, <1>6

\* A sequence is the part of it from its first element to its last.
LEMMA WholeSeq == ASSUME NEW ms \in Seq(Message) PROVE ms = SubSeq(ms, 0 + 1, Len(ms))
<1>. DEFINE sub == SubSeq(ms, 1, Len(ms))
<1>1. Len(ms) \in Nat /\ \A i \in 1..Len(ms) : ms[i] \in Message  BY LenProperties, ElementOfSeq
<1>2. sub \in Seq(Message) /\ Len(sub) = Len(ms) /\ \A i \in 1..Len(ms) : sub[i] = ms[1 + i - 1]
  BY <1>1, SubSeqProperties
<1>3. \A i \in 1..Len(ms) : sub[i] = ms[i]  BY <1>1, <1>2
<1>. HIDE DEF sub
<1>4. ms = sub  BY <1>2, <1>3, SeqEqual
<1>. QED  BY <1>4 DEF sub

\* The archived part does not separate a call from its result.
LEMMA CutApart == GraphInv => WindowIsPaired
<1>. SUFFICES ASSUME GraphInv, run.st = "agent"
              PROVE  \A i \in DOMAIN Window :
                       /\ Window[i].kind = "tool" =>
                            \E j \in 1..(i - 1) :
                              Window[j].kind = "ai" /\ Window[i].calls[1] \in ToSet(Window[j].calls)
                       /\ Window[i].kind = "ai" /\ ~broken =>
                            \A c \in ToSet(Window[i].calls) :
                              \E j \in DOMAIN Window : j > i /\ Window[j] = Tool(c)
  BY DEF WindowIsPaired
<1>1. msgs \in Seq(Message) /\ Len(msgs) \in Nat /\ DOMAIN msgs = 1..Len(msgs) /\ cut \in Nat /\ ~Asking
  BY LenProperties DEF GraphInv, GraphTypeOK, Asking
<1>2. \A i \in 1..Len(msgs) : msgs[i].kind = "tool" =>
        \E j \in 1..(i - 1) :
          /\ msgs[j].kind = "ai" /\ msgs[i].calls[1] \in ToSet(msgs[j].calls)
          /\ \A k \in (j + 1)..i : msgs[k].kind = "tool"
  BY DEF GraphInv, Shape, Backed
<1>3. ~broken => \A i \in 1..Len(msgs) : msgs[i].kind = "ai" =>
        \A c \in ToSet(msgs[i].calls) : \E j \in (i + 1)..Len(msgs) : msgs[j] = Tool(c)
  BY <1>1 DEF GraphInv, Shape, Resulted
<1>. DEFINE From(b) ==
              /\ b \in 0..Len(msgs) /\ (b > 0 => Concluded(msgs[b]))
              /\ DOMAIN Window = 1..(Len(msgs) - b)
              /\ \A i \in 1..(Len(msgs) - b) : Window[i] = msgs[b + i]
<1>0. From(0) \/ From(cut)
  <2>1. CASE cut > 0 /\ cut < Len(msgs)
    <3>1. Window = SubSeq(msgs, cut + 1, Len(msgs))  BY <2>1 DEF Window
    <3>2. /\ Window \in Seq(Message) /\ Len(Window) = Len(msgs) - cut
          /\ \A i \in 1..(Len(msgs) - cut) : Window[i] = msgs[cut + i]
      <4>1. cut \in 1..(Len(msgs) - 1)  BY <1>1, <2>1
      <4>. QED  BY <1>1, <3>1, <4>1, AfterCut
    <3>3. DOMAIN Window = 1..(Len(msgs) - cut)  BY <3>2, LenProperties
    <3>4. Concluded(msgs[cut])  BY <2>1 DEF GraphInv, Shape, CutRests
    <3>5. cut \in 0..Len(msgs)  BY <1>1, <2>1
    <3>6. From(cut)  BY <3>2, <3>3, <3>4, <3>5
    <3>. HIDE DEF From
    <3>. QED  BY <3>6
  <2>2. CASE ~(cut > 0 /\ cut < Len(msgs))
    <3>1. Window = msgs  BY <2>2 DEF Window
    <3>2. DOMAIN Window = 1..(Len(msgs) - 0) /\ \A i \in 1..(Len(msgs) - 0) : Window[i] = msgs[0 + i]
      BY <1>1, <3>1
    <3>3. From(0)
      <4>1. 0 \in 0..Len(msgs) /\ ~(0 > 0)  BY <1>1
      <4>. QED  BY <3>2, <4>1
    <3>. HIDE DEF From
    <3>. QED  BY <3>3
  <2>. QED  BY <2>1, <2>2
<1>4. PICK b \in {0, cut} : From(b)
  <2>. HIDE DEF From
  <2>. QED  BY <1>0
<1>. TAKE i \in DOMAIN Window
<1>5. b + i \in 1..Len(msgs) /\ Window[i] = msgs[b + i] /\ i \in 1..(Len(msgs) - b)  BY <1>1, <1>4
<1>6. ASSUME Window[i].kind = "tool"
      PROVE  \E j \in 1..(i - 1) :
               Window[j].kind = "ai" /\ Window[i].calls[1] \in ToSet(Window[j].calls)
  <2>1. PICK j \in 1..((b + i) - 1) :
          /\ msgs[j].kind = "ai" /\ msgs[b + i].calls[1] \in ToSet(msgs[j].calls)
          /\ \A k \in (j + 1)..(b + i) : msgs[k].kind = "tool"
    BY <1>2, <1>5, <1>6
  <2>2. j # b
    <3>1. ASSUME j = b PROVE FALSE
      <4>1. msgs[j].calls = <<>>  BY <1>4, <2>1, <3>1 DEF Concluded
      <4>. QED  BY <2>1, <4>1 DEF ToSet
    <3>. QED  BY <3>1
  <2>3. ~(j < b)
    <3>1. ASSUME j < b PROVE FALSE
      <4>1. b \in (j + 1)..(b + i)  BY <1>1, <1>4, <1>5, <2>1, <3>1
      <4>2. msgs[b].kind = "tool" /\ b > 0  BY <1>4, <2>1, <3>1, <4>1
      <4>. QED  BY <1>4, <4>2 DEF Concluded
    <3>. QED  BY <3>1
  <2>4. j - b \in 1..(i - 1) /\ j - b \in 1..(Len(msgs) - b) /\ b + (j - b) = j
    BY <1>1, <1>4, <1>5, <2>1, <2>2, <2>3
  <2>5. Window[j - b] = msgs[j]  BY <1>4, <2>4
  <2>. QED  BY <1>5, <2>1, <2>4, <2>5
<1>7. ASSUME Window[i].kind = "ai", ~broken, NEW c \in ToSet(Window[i].calls)
      PROVE  \E j \in DOMAIN Window : j > i /\ Window[j] = Tool(c)
  <2>1. PICK j \in ((b + i) + 1)..Len(msgs) : msgs[j] = Tool(c)  BY <1>3, <1>5, <1>7
  <2>2. j - b \in 1..(Len(msgs) - b) /\ j - b > i /\ b + (j - b) = j  BY <1>1, <1>4, <1>5, <2>1
  <2>3. Window[j - b] = msgs[j]  BY <1>4, <2>2
  <2>. QED  BY <1>4, <2>1, <2>2, <2>3
<1>. QED  BY <1>6, <1>7

\* What is not shown is in the summary.
LEMMA ShownOrSummed == ASSUME Parameters, GraphInv PROVE NothingForgotten
<1>1. msgs \in Seq(Message) /\ Len(msgs) \in Nat /\ cut \in Nat
  BY LenProperties DEF GraphInv, GraphTypeOK
<1>2. summary = 1..cut /\ (cut > 0 => cut + KeepRecent <= Len(msgs))  BY DEF GraphInv, SummedUp
<1>3. \A i \in summary : i + KeepRecent <= Len(msgs)  BY <1>1, <1>2 DEF Parameters
<1>4. CASE cut > 0 /\ cut < Len(msgs)
  <2>1. Window = SubSeq(msgs, cut + 1, Len(msgs))  BY <1>4 DEF Window
  <2>2. cut \in 1..(Len(msgs) - 1)  BY <1>1, <1>4
  <2>3. Len(Window) = Len(msgs) - cut  BY <1>1, <2>1, <2>2, AfterCut
  <2>4. Len(msgs) - Len(Window) = cut  BY <1>1, <2>3
  <2>. QED  BY <1>2, <1>3, <2>1, <2>4 DEF NothingForgotten
<1>5. CASE ~(cut > 0 /\ cut < Len(msgs))
  <2>1. Window = msgs  BY <1>5 DEF Window
  <2>2. Len(msgs) - Len(Window) = 0  BY <1>1, <2>1
  <2>3. msgs = SubSeq(msgs, 0 + 1, Len(msgs))  BY <1>1, WholeSeq
  <2>4. 1..0 \subseteq summary  OBVIOUS
  <2>. QED  BY <1>3, <2>1, <2>2, <2>3, <2>4 DEF NothingForgotten
<1>. QED  BY <1>4, <1>5

\* GraphTypeOK in every state: the thread, its memory and the run have their types.
THEOREM GraphTypes == ASSUME Parameters PROVE GraphSpec => []GraphTypeOK
<1>1. GraphInv => GraphTypeOK  BY DEF GraphInv
<1>. QED  BY <1>1, GraphInvariant, PTL DEF GraphSpec

\* RiskyIsAnswered in every state: the tools node carries out a risky call only after the user answered
\* the question about that very call with something it does not read as a refusal, although every
\* resumption runs the node again from its start and interrupt() tells the answers apart by their
\* number alone.
THEOREM AnsweredRisk == ASSUME Parameters PROVE GraphSpec => []RiskyIsAnswered
<1>1. GraphInv => RiskyIsAnswered  BY DEF GraphInv
<1>. QED  BY <1>1, GraphInvariant, PTL DEF GraphSpec

\* WindowIsPaired in every state: agent_node never shows the model a result without its call, wherever
\* the compressor cut, nor a call without its result unless a run was stopped or bypassed in between.
THEOREM PairedWindow == ASSUME Parameters PROVE GraphSpec => []WindowIsPaired
BY GraphInvariant, CutApart, PTL DEF GraphSpec

\* NothingForgotten in every state: what agent_node shows to the model is an end of the messages, the
\* summary holds everything before it, and the recent messages are never archived, whatever the
\* compressor's parameters.
THEOREM NothingLost == ASSUME Parameters PROVE GraphSpec => []NothingForgotten
<1>1. ASSUME Parameters, GraphInv PROVE NothingForgotten  BY <1>1, ShownOrSummed
<1>. QED  BY <1>1, GraphInvariant, PTL DEF GraphSpec

=============================================================================
