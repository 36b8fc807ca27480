-------------------------- MODULE Exchange_proofs --------------------------
(***************************************************************************)
(* What one exchange keeps, for every set of events, rules, answers and    *)
(* calls: the types of the four parts, who may speak to the model and what *)
(* it is told, the nesting of the trace contexts, what NapCat is asked for *)
(* and the pages a walk through the history reads, the frames of a video   *)
(* that are described, what of a reply is sent, and in which order QQ      *)
(* shows it.                                                               *)
(* Each part has an invariant of its own (InInv, TraceInv, ToolInv,        *)
(* FrameInv, OutInv), and those of what is told, read, planned and         *)
(* delivered (ToldInv, WalkInv, PlanInv, SentAll) rest on them; only the   *)
(* kind of chat of the reply is taken over from another part, so that      *)
(* OutInv needs InInv.                                                     *)
(***************************************************************************)
EXTENDS Exchange, SequenceTheorems, FiniteSetTheorems, WellFoundedInduction, TLAPS

-----------------------------------------------------------------------------
(* The traces *)

\* The contexts of the stack while the trace is built up and left again.
StackInv ==
    /\ trPc = "session" => contexts = << >>
    /\ trPc = "root" => contexts = << "session" >>
    /\ trPc = "abandon" => contexts \in { << >>, << "session" >> }
    /\ trPc = "exitRun" => contexts = << "session", "run" >>
    /\ trPc = "exitSession" => contexts = << "session" >>
    /\ trPc \in {"off", "session", "root", "abandon"} => trace = "none"
    /\ trPc = "call" => calls > 0

TraceInv == TraceTypeOK /\ ContextsNest /\ StackInv

\* Nothing is traced at the start.
LEMMA TraceInvInit == ASSUME TraceInit PROVE TraceInv
<1>1. contexts \in Seq({"session", "run", "generation", "span"})
  BY DEF TraceInit
<1> QED
  BY <1>1, TurnAssumption DEF TraceInit, TraceInv, TraceTypeOK, ContextsNest, StackInv

\* One context pushed on another, and popped again.
LEMMA PushPop ==
    ASSUME NEW S, NEW x \in S, NEW y \in S
    PROVE  /\ Append(<< x >>, y) = << x, y >>
           /\ SubSeq(<< x, y >>, 1, 1) = << x >>
<1>1. PICK s : s = << x >>
  OBVIOUS
<1>2. PICK t : t = << x, y >>
  OBVIOUS
<1>3. s \in Seq(S) /\ t \in Seq(S) /\ Len(s) = 1 /\ s[1] = x
  BY <1>1, <1>2
<1>4. Len(t) = 2 /\ t[1] = x /\ t[2] = y
  BY <1>2
<1>5. PICK a : a = Append(s, y)
  OBVIOUS
<1>6. a = t
  <2>1. a \in Seq(S) /\ Len(a) = 2 /\ a[1] = x /\ a[2] = y
    BY <1>1, <1>3, <1>5
  <2>2. \A i \in 1..Len(a) : a[i] = t[i]
    BY <2>1, <1>4
  <2> QED
    BY <2>1, <2>2, <1>3, <1>4, SeqEqual
<1>7. PICK b : b = SubSeq(t, 1, 1)
  OBVIOUS
<1>8. b = s
  <2>1. b \in Seq(S) /\ Len(b) = 1 /\ b[1] = x
    BY <1>3, <1>4, <1>7
  <2>2. \A i \in 1..Len(b) : b[i] = s[i]
    BY <2>1, <1>3
  <2> QED
    BY <2>1, <2>2, <1>3, SeqEqual
<1> QED
  BY <1>1, <1>2, <1>5, <1>6, <1>7, <1>8

\* The stack while only the contexts of the run are on it.
LEMMA RunStack ==
    /\ Append(<< >>, "session") = << "session" >>
    /\ Append(<< "session" >>, "run") = << "session", "run" >>
    /\ SubSeq(<< "session", "run" >>, 1, Len(<< "session", "run" >>) - 1) = << "session" >>
    /\ SubSeq(<< "session" >>, 1, Len(<< "session" >>) - 1) = << >>
<1>1. Len(<< "session", "run" >>) - 1 = 1 /\ Len(<< "session" >>) - 1 = 0
  OBVIOUS
<1>2. Append(<< >>, "session") = << "session" >> /\ SubSeq(<< "session" >>, 1, 0) = << >>
  OBVIOUS
<1>3. /\ Append(<< "session" >>, "run") = << "session", "run" >>
      /\ SubSeq(<< "session", "run" >>, 1, 1) = << "session" >>
  <2> DEFINE S == {"session", "run"}
  <2>1. "session" \in S /\ "run" \in S
    OBVIOUS
  <2> HIDE DEF S
  <2> QED
    BY <2>1, PushPop
<1> QED
  BY <1>1, <1>2, <1>3

\* start_run enters the contexts of the run one inside the other, or leaves what it has entered.
LEMMA StartKeepsTrace ==
    ASSUME TraceInv, EnterSession \/ EnterRoot \/ Abandon \/ \E enabled \in BOOLEAN : StartRun(enabled)
    PROVE  TraceInv'
<1> USE DEF TraceInv, StackInv, RunGoes
<1>1. CASE EnterSession
  <2>1. CASE trPc' = "abandon"
    BY <1>1, <2>1 DEF EnterSession, TraceTypeOK, ContextsNest
  <2>2. CASE trPc' = "root"
    <3>1. contexts' = << "session" >>
      BY <1>1, <2>2, RunStack DEF EnterSession, Enter
    <3> QED
      BY <1>1, <2>2, <3>1 DEF EnterSession, Enter, TraceTypeOK, ContextsNest
  <2> QED
    BY <1>1, <2>1, <2>2 DEF EnterSession
<1>2. CASE EnterRoot
  <2>1. CASE trPc' = "abandon"
    BY <1>2, <2>1 DEF EnterRoot, TraceTypeOK, ContextsNest
  <2>2. CASE trPc' = "model"
    <3>1. contexts' = << "session", "run" >> /\ trace' = "langfuse"
      BY <1>2, <2>2, RunStack DEF EnterRoot, Enter
    <3> QED
      BY <1>2, <2>2, <3>1 DEF EnterRoot, Enter, TraceTypeOK, ContextsNest
  <2> QED
    BY <1>2, <2>1, <2>2 DEF EnterRoot
<1>3. CASE Abandon
  BY <1>3 DEF Abandon, Leave, TraceTypeOK, ContextsNest
<1>4. CASE \E enabled \in BOOLEAN : StartRun(enabled)
  BY <1>4 DEF StartRun, TraceTypeOK, ContextsNest
<1> QED
  BY <1>1, <1>2, <1>3, <1>4

\* The turns and the tool calls of a run leave open exactly what they found open.
LEMMA TurnKeepsTrace ==
    ASSUME TraceInv,
           \/ \E n \in 0..MaxCalls : ModelAnswers(n)
           \/ RunFails \/ OpenChild \/ SkipsChild \/ ChildEnds \/ Answered \/ Traced \/ ToolReturned
    PROVE  TraceInv'
<1> USE DEF TraceInv, StackInv, RunGoes, RunEndsIn
<1>1. CASE \E n \in 0..MaxCalls : ModelAnswers(n)
  BY <1>1, TurnAssumption DEF ModelAnswers, TurnLeft, TraceTypeOK, ContextsNest
<1>2. CASE RunFails
  BY <1>2, TurnAssumption DEF RunFails, TraceTypeOK, ContextsNest
<1>3. CASE OpenChild
  BY <1>3 DEF OpenChild, Enter, TraceTypeOK, ContextsNest
<1>4. CASE SkipsChild
  BY <1>4 DEF SkipsChild, TraceTypeOK, ContextsNest
<1>5. CASE ChildEnds
  BY <1>5 DEF ChildEnds, Leave, TraceTypeOK, ContextsNest
<1>6. CASE Answered
  BY <1>6, TurnAssumption DEF Answered, TraceTypeOK, ContextsNest
<1>7. CASE Traced
  BY <1>7 DEF Traced, TraceTypeOK, ContextsNest
<1>8. CASE ToolReturned
  BY <1>8, TurnAssumption DEF ToolReturned, TraceTypeOK, ContextsNest
<1> QED
  BY <1>1, <1>2, <1>3, <1>4, <1>5, <1>6, <1>7, <1>8

\* The end of a run leaves the contexts inner before outer, and none open.
LEMMA EndKeepsTrace ==
    ASSUME TraceInv, Finish \/ ExitContext
    PROVE  TraceInv'
<1> USE DEF TraceInv, StackInv, RunGoes
<1>1. CASE Finish
  BY <1>1 DEF Finish, TraceTypeOK, ContextsNest
<1>2. CASE ExitContext
  <2>1. CASE trPc = "exitRun"
    <3>1. contexts' = << "session" >>
      BY <1>2, <2>1, RunStack DEF ExitContext, Leave
    <3> QED
      BY <1>2, <2>1, <3>1 DEF ExitContext, TraceTypeOK, ContextsNest
  <2>2. CASE trPc = "exitSession"
    <3>1. contexts' = << >>
      BY <1>2, <2>2, RunStack DEF ExitContext, Leave
    <3> QED
      BY <1>2, <2>2, <3>1 DEF ExitContext, TraceTypeOK, ContextsNest
  <2> QED
    BY <1>2, <2>1, <2>2 DEF ExitContext
<1> QED
  BY <1>1, <1>2


\* Every step of the exchange keeps the traces as the code leaves them.
LEMMA TraceInvStep == ASSUME TraceInv, [Next]_allVars PROVE TraceInv'
<1> USE DEF RunVars
<1>0. CASE UNCHANGED traceVars
  BY <1>0 DEF traceVars, TraceInv, TraceTypeOK, ContextsNest, StackInv
<1>1. CASE AgentRuns
  BY <1>1, StartKeepsTrace DEF AgentRuns
<1>2. CASE AgentWorks
  BY <1>2, StartKeepsTrace, TurnKeepsTrace, EndKeepsTrace DEF AgentWorks, TraceStep
<1>3. CASE ToolReturns
  BY <1>3, TurnKeepsTrace DEF ToolReturns
<1>4. CASE RunReturns
  BY <1>4, TurnAssumption DEF RunReturns, TraceInv, TraceTypeOK, ContextsNest, StackInv
<1>5. CASE AgentAnswers
  BY <1>5 DEF AgentAnswers, TraceInv, TraceTypeOK, ContextsNest, StackInv
<1>6. CASE Shutdown \/ LangfuseAnswers
  BY <1>6
  DEF Shutdown, BeginFlush, FlushTimesOut, LangfuseAnswers, ClientFlushes,
      TraceInv, TraceTypeOK, ContextsNest, StackInv
<1>7. CASE HubListens \/ CallsTool \/ ToolWorks \/ NewMessage \/ HubReplies \/ Stopped \/ UNCHANGED allVars
  BY <1>0, <1>7 DEF HubListens, CallsTool, ToolWorks, NewMessage, HubReplies, Stopped, allVars
<1> QED
  BY <1>1, <1>2, <1>3, <1>4, <1>5, <1>6, <1>7 DEF Next, Progress

\* The contexts nest, whatever raises where, for every number of turns and calls.
THEOREM TracesNest == Spec => [](TraceInv /\ ContextsNest)
<1>1. Init => TraceInv
  BY TraceInvInit DEF Init
<1>2. TraceInv /\ [Next]_allVars => TraceInv'
  BY TraceInvStep
<1>3. TraceInv => ContextsNest
  BY DEF TraceInv
<1> QED
  BY <1>1, <1>2, <1>3, PTL DEF Spec

-----------------------------------------------------------------------------
(* Sequences of anything *)

\* A sequence, whatever its items are.
IsSequence(s) == s \in Seq({ s[i] : i \in DOMAIN s })

\* What a sequence is, without its items.
LEMMA SequencesAre ==
    ASSUME NEW S, NEW s \in Seq(S)
    PROVE  IsSequence(s) /\ Len(s) \in Nat /\ DOMAIN s = 1..Len(s)
<1>1. s \in [1..Len(s) -> { s[i] : i \in DOMAIN s }] /\ Len(s) \in Nat /\ DOMAIN s = 1..Len(s)
  OBVIOUS
<1> QED
  BY <1>1 DEF IsSequence

\* One item more: the others stay where they are.
LEMMA AppendGrows ==
    ASSUME NEW s, IsSequence(s), NEW x
    PROVE  /\ IsSequence(Append(s, x))
           /\ Len(s) \in Nat /\ Len(Append(s, x)) = Len(s) + 1
           /\ DOMAIN s = 1..Len(s) /\ DOMAIN Append(s, x) = 1..Len(s) + 1
           /\ Append(s, x)[Len(s) + 1] = x
           /\ \A i \in DOMAIN s : Append(s, x)[i] = s[i]
<1>1. PICK S : S = { s[i] : i \in DOMAIN s } \cup {x}
  OBVIOUS
<1>2. s \in Seq(S) /\ x \in S
  BY <1>1 DEF IsSequence
<1>3. PICK a : a = Append(s, x)
  OBVIOUS
<1>4. a \in Seq(S) /\ Len(a) = Len(s) + 1 /\ a[Len(s) + 1] = x /\ \A i \in 1..Len(s) : a[i] = s[i]
  BY <1>2, <1>3, AppendProperties
<1>5. IsSequence(a) /\ DOMAIN a = 1..Len(s) + 1 /\ Len(s) \in Nat /\ DOMAIN s = 1..Len(s)
  BY <1>2, <1>4, SequencesAre
<1> QED
  BY <1>3, <1>4, <1>5

\* c is as long as s and t together, and has the items of s and then those of t.
Joins(c, s, t) ==
    /\ IsSequence(c)
    /\ Len(s) \in Nat /\ Len(t) \in Nat /\ Len(c) = Len(s) + Len(t)
    /\ DOMAIN s = 1..Len(s) /\ DOMAIN t = 1..Len(t) /\ DOMAIN c = 1..Len(s) + Len(t)
    /\ \A i \in DOMAIN c :
         (\E j \in DOMAIN s : c[i] = s[j]) \/ (\E j \in DOMAIN t : c[i] = t[j])
    /\ \A i \in 1..Len(s) : c[i] = s[i]
    /\ \A i \in 1..Len(t) : c[Len(s) + i] = t[i]

\* Two sequences one behind the other.
LEMMA ConcatJoins ==
    ASSUME NEW s, IsSequence(s), NEW t, IsSequence(t), NEW c, c = s \o t
    PROVE  Joins(c, s, t)
<1>1. PICK S : S = { s[i] : i \in DOMAIN s } \cup { t[i] : i \in DOMAIN t }
  OBVIOUS
<1>2. s \in Seq(S) /\ t \in Seq(S)
  BY <1>1 DEF IsSequence
<1>3. /\ c \in Seq(S) /\ Len(c) = Len(s) + Len(t)
      /\ \A i \in 1..Len(s) + Len(t) : c[i] = IF i <= Len(s) THEN s[i] ELSE t[i - Len(s)]
  BY <1>2, ConcatProperties
<1>4. /\ IsSequence(c) /\ DOMAIN c = 1..Len(c) /\ Len(s) \in Nat /\ Len(t) \in Nat
      /\ DOMAIN s = 1..Len(s) /\ DOMAIN t = 1..Len(t)
  BY <1>2, <1>3, SequencesAre
<1>5. \A i \in DOMAIN c : c[i] \in S
  BY <1>3
<1>6. \A i \in 1..Len(s) : c[i] = s[i]
  BY <1>3, <1>4
<1>7. \A i \in 1..Len(t) : c[Len(s) + i] = t[i]
  <2> TAKE i \in 1..Len(t)
  <2>1. Len(s) + i \in 1..Len(s) + Len(t) /\ ~(Len(s) + i <= Len(s)) /\ (Len(s) + i) - Len(s) = i
    BY <1>4
  <2> QED
    BY <2>1, <1>3
<1> QED
  BY <1>1, <1>3, <1>4, <1>5, <1>6, <1>7 DEF Joins

\* A sequence of one item.
LEMMA OneItem == ASSUME NEW x PROVE IsSequence(<< x >>) /\ DOMAIN << x >> = 1..1 /\ << x >>[1] = x
<1>1. << x >> \in Seq({x})
  OBVIOUS
<1> QED
  BY <1>1, SequencesAre

\* The empty sequence.
LEMMA NoItem == IsSequence(<< >>) /\ DOMAIN << >> = {} /\ Len(<< >>) = 0
<1>1. << >> \in Seq({})
  OBVIOUS
<1>2. DOMAIN << >> = {} /\ Len(<< >>) = 0
  OBVIOUS
<1> QED
  BY <1>1, <1>2, SequencesAre

-----------------------------------------------------------------------------
(* Selections *)

\* p counts the numbers of K upwards from the first to the m-th.
Counts(p, m, K) ==
    /\ m \in Nat /\ p \in [1..m -> K]
    /\ \A k, l \in 1..m : k < l => p[k] < p[l]
    /\ \A i \in K : \E k \in 1..m : p[k] = i

\* The rank of a number tells it from the others.
LEMMA RanksAscend ==
    ASSUME NEW K \in SUBSET Nat, IsFiniteSet(K), NEW i \in K, NEW j \in K, i < j
    PROVE  Rank(K, i) \in 1..Cardinality(K) /\ Rank(K, i) < Rank(K, j)
<1> DEFINE upTo(x) == { y \in K : y <= x }
<1>1. /\ IsFiniteSet(upTo(i)) /\ Cardinality(upTo(i)) \in Nat
      /\ IsFiniteSet(upTo(j)) /\ Cardinality(upTo(j)) \in Nat
      /\ Cardinality(K) \in Nat /\ Cardinality(upTo(i)) <= Cardinality(K)
  <2>1. upTo(i) \in SUBSET K /\ upTo(j) \in SUBSET K
    OBVIOUS
  <2> HIDE DEF upTo
  <2> QED
    BY <2>1, FS_Subset, FS_CardinalityType
<1>2. upTo(i) \subseteq upTo(j) /\ upTo(i) # upTo(j)
  <2>1. j \in upTo(j) /\ j \notin upTo(i)
    OBVIOUS
  <2>2. \A y \in K : y <= i => y <= j
    OBVIOUS
  <2>3. upTo(i) \subseteq upTo(j)
    BY <2>2
  <2> HIDE DEF upTo
  <2> QED
    BY <2>1, <2>3
<1>3. Cardinality(upTo(i)) < Cardinality(upTo(j))
  <2> HIDE DEF upTo
  <2> QED
    BY <1>1, <1>2, FS_Subset
<1>4. Cardinality(upTo(i)) # 0
  <2>1. i \in upTo(i)
    OBVIOUS
  <2> HIDE DEF upTo
  <2> QED
    BY <2>1, <1>1, FS_EmptySet
<1> QED
  BY <1>1, <1>3, <1>4 DEF Rank

\* The rank of every number.
LEMMA RankBounds ==
    ASSUME NEW K \in SUBSET Nat, IsFiniteSet(K), NEW i \in K
    PROVE  Rank(K, i) \in 1..Cardinality(K)
<1> DEFINE upTo == { y \in K : y <= i }
<1>1. upTo \in SUBSET K /\ i \in upTo
  OBVIOUS
<1> HIDE DEF upTo
<1>2. IsFiniteSet(upTo) /\ Cardinality(upTo) \in Nat /\ Cardinality(K) \in Nat /\ Cardinality(upTo) <= Cardinality(K)
  BY <1>1, FS_Subset, FS_CardinalityType
<1>3. Cardinality(upTo) # 0
  BY <1>1, <1>2, FS_EmptySet
<1> QED
  BY <1>2, <1>3 DEF Rank, upTo

\* Nth counts every finite set of numbers.
LEMMA NthCounts ==
    ASSUME NEW K \in SUBSET Nat, IsFiniteSet(K)
    PROVE  Counts([k \in 1..Cardinality(K) |-> Nth(K, k)], Cardinality(K), K)
<1> DEFINE m == Cardinality(K)
           r == [i \in K |-> Rank(K, i)]
<1>1. m \in Nat /\ IsFiniteSet(1..m) /\ Cardinality(1..m) = m
  <2>1. m \in Nat
    BY FS_CardinalityType
  <2> HIDE DEF m
  <2> QED
    BY <2>1, FS_Interval
<1>2. \A i \in K : Rank(K, i) \in 1..m
  BY RankBounds
<1>3. \A i, j \in K : i < j => Rank(K, i) < Rank(K, j)
  BY RanksAscend
<1>4. \A i, j \in K : Rank(K, i) = Rank(K, j) => i = j
  <2> SUFFICES ASSUME NEW i \in K, NEW j \in K, Rank(K, i) = Rank(K, j), i # j
               PROVE  FALSE
    OBVIOUS
  <2>1. i < j \/ j < i
    OBVIOUS
  <2>2. Rank(K, i) \in Nat /\ Rank(K, j) \in Nat
    BY <1>1, <1>2
  <2> QED
    BY <2>1, <2>2, <1>3
<1>5. r \in Injection(K, 1..m)
  <2>1. r \in [K -> 1..m]
    BY <1>2
  <2>2. \A i, j \in K : r[i] = r[j] => i = j
    BY <1>4
  <2> QED
    BY <2>1, <2>2 DEF Injection, IsInjective
<1>6. r \in Surjection(K, 1..m)
  <2> HIDE DEF r
  <2> QED
    BY <1>1, <1>5, FS_Injection
<1>7. \A k \in 1..m : \E i \in K : Rank(K, i) = k
  <2> TAKE k \in 1..m
  <2>1. \E i \in K : r[i] = k
    <3> HIDE DEF r
    <3> QED
      BY <1>6 DEF Surjection
  <2> QED
    BY <2>1
<1>8. \A k \in 1..m : Nth(K, k) \in K /\ Rank(K, Nth(K, k)) = k
  BY <1>7 DEF Nth
<1>9. \A k, l \in 1..m : k < l => Nth(K, k) < Nth(K, l)
  <2> SUFFICES ASSUME NEW k \in 1..m, NEW l \in 1..m, k < l, ~(Nth(K, k) < Nth(K, l))
               PROVE  FALSE
    OBVIOUS
  <2>1. PICK i \in K : i = Nth(K, k) /\ Rank(K, i) = k
    BY <1>8
  <2>2. PICK j \in K : j = Nth(K, l) /\ Rank(K, j) = l
    BY <1>8
  <2>3. i = j \/ j < i
    BY <2>1, <2>2
  <2> QED
    BY <2>1, <2>2, <2>3, <1>1, <1>3
<1>10. \A i \in K : \E k \in 1..m : Nth(K, k) = i
  <2> TAKE i \in K
  <2>1. Rank(K, i) \in 1..m
    BY <1>2
  <2>2. Nth(K, Rank(K, i)) = i
    BY <2>1, <1>4, <1>8
  <2> QED
    BY <2>1, <2>2
<1> QED
  <2> HIDE DEF m
  <2>1. [k \in 1..m |-> Nth(K, k)] \in [1..m -> K]
    BY <1>8
  <2>2. Counts([k \in 1..m |-> Nth(K, k)], m, K)
    BY <2>1, <1>1, <1>9, <1>10 DEF Counts
  <2> QED
    BY <2>2 DEF m

\* There is only one way to count.
LEMMA CountsAreUnique ==
    ASSUME NEW K \in SUBSET Nat, IsFiniteSet(K), NEW m, NEW p, Counts(p, m, K)
    PROVE  m = Cardinality(K) /\ \A k \in 1..m : p[k] = Nth(K, k)
<1>1. m \in Nat /\ p \in [1..m -> K] /\ IsFiniteSet(1..m) /\ Cardinality(1..m) = m
  BY FS_Interval DEF Counts
<1>2. \A k, l \in 1..m : p[k] = p[l] => k = l
  <2> SUFFICES ASSUME NEW k \in 1..m, NEW l \in 1..m, p[k] = p[l], k # l
               PROVE  FALSE
    OBVIOUS
  <2>1. k < l \/ l < k
    BY <1>1
  <2>2. p[k] \in Nat /\ p[l] \in Nat
    BY <1>1
  <2> QED
    BY <2>1, <2>2 DEF Counts
<1>3. p \in Surjection(1..m, K) /\ p \in Injection(1..m, K)
  BY <1>1, <1>2 DEF Counts, Surjection, Injection, IsInjective
<1>4. m = Cardinality(K)
  BY <1>1, <1>3, FS_Surjection
<1>5. \A k \in 1..m : Rank(K, p[k]) = k
  <2> TAKE k \in 1..m
  <2> DEFINE U == { j \in K : j <= p[k] }
             q == [i \in 1..k |-> p[i]]
  <2>1. \A i \in 1..m : p[i] <= p[k] <=> i <= k
    <3> TAKE i \in 1..m
    <3>1. p[i] \in Nat /\ p[k] \in Nat
      BY <1>1
    <3>2. CASE i < k
      BY <3>1, <3>2 DEF Counts
    <3>3. CASE i = k
      BY <3>1, <3>3
    <3>4. CASE k < i
      BY <3>1, <3>4 DEF Counts
    <3> QED
      BY <3>2, <3>3, <3>4
  <2>2. q \in Surjection(1..k, U)
    <3>1. \A i \in 1..k : i \in 1..m /\ q[i] \in U
      BY <1>1, <2>1
    <3>2. \A x \in U : \E i \in 1..k : q[i] = x
      <4> TAKE x \in U
      <4>1. PICK i \in 1..m : p[i] = x
        BY DEF Counts
      <4>2. i \in 1..k
        BY <4>1, <2>1
      <4> QED
        BY <4>1, <4>2
    <3> QED
      BY <3>1, <3>2 DEF Surjection
  <2>3. q \in Injection(1..k, U)
    <3>1. q \in [1..k -> U]
      BY <2>2 DEF Surjection
    <3>2. \A i, j \in 1..k : q[i] = q[j] => i = j
      <4> TAKE i, j \in 1..k
      <4>1. i \in 1..m /\ j \in 1..m /\ q[i] = p[i] /\ q[j] = p[j]
        BY <1>1
      <4> QED
        BY <4>1, <1>2
    <3> QED
      BY <3>1, <3>2 DEF Injection, IsInjective
  <2>4. IsFiniteSet(1..k) /\ Cardinality(1..k) = k
    BY FS_Interval
  <2>5. Cardinality(U) = k
    <3> HIDE DEF U, q
    <3> QED
      BY <2>2, <2>3, <2>4, FS_Surjection
  <2> QED
    BY <2>5 DEF Rank
<1>6. \A k \in 1..m : p[k] = Nth(K, k)
  <2> TAKE k \in 1..m
  <2>1. p[k] \in K /\ Rank(K, p[k]) = k
    BY <1>1, <1>5
  <2>2. \A i \in K : Rank(K, i) = k => i = p[k]
    <3> TAKE i \in K
    <3>1. PICK l \in 1..m : p[l] = i
      BY DEF Counts
    <3> QED
      BY <3>1, <1>5
  <2> QED
    BY <2>1, <2>2 DEF Nth
<1> QED
  BY <1>4, <1>6

\* What is selected: the items at the places of K, in their order.
LEMMA SelectionHolds ==
    ASSUME NEW s, IsSequence(s), NEW K \in SUBSET DOMAIN s
    PROVE  /\ IsFiniteSet(K) /\ K \in SUBSET Nat
           /\ IsSequence(Select(s, K)) /\ Len(Select(s, K)) = Cardinality(K)
           /\ DOMAIN Select(s, K) = 1..Cardinality(K) /\ Cardinality(K) \in Nat
           /\ \A k \in 1..Cardinality(K) : Nth(K, k) \in K /\ Select(s, K)[k] = s[Nth(K, k)]
           /\ \A k, l \in 1..Cardinality(K) : k < l => Nth(K, k) < Nth(K, l)
           /\ \A i \in K : \E k \in 1..Cardinality(K) : Nth(K, k) = i
<1>1. Len(s) \in Nat /\ DOMAIN s = 1..Len(s)
  BY SequencesAre DEF IsSequence
<1>2. IsFiniteSet(K) /\ K \in SUBSET Nat
  <2>1. IsFiniteSet(1..Len(s))
    BY <1>1, FS_Interval
  <2>2. K \in SUBSET (1..Len(s))
    BY <1>1
  <2> QED
    BY <2>1, <2>2, FS_Subset
<1>3. PICK m : m = Cardinality(K)
  OBVIOUS
<1>4. Counts([k \in 1..m |-> Nth(K, k)], m, K)
  BY <1>2, <1>3, NthCounts
<1>5. /\ m \in Nat /\ \A k \in 1..m : Nth(K, k) \in K
      /\ \A k, l \in 1..m : k < l => Nth(K, k) < Nth(K, l)
      /\ \A i \in K : \E k \in 1..m : Nth(K, k) = i
  <2>1. PICK p : p = [k \in 1..m |-> Nth(K, k)]
    OBVIOUS
  <2>2. Counts(p, m, K) /\ \A k \in 1..m : p[k] = Nth(K, k)
    BY <2>1, <1>4
  <2> QED
    BY <2>2 DEF Counts
<1>6. PICK r : r = Select(s, K)
  OBVIOUS
<1>7. r = [k \in 1..m |-> s[Nth(K, k)]]
  BY <1>3, <1>6 DEF Select
<1>8. IsSequence(r) /\ Len(r) = m /\ DOMAIN r = 1..m
  <2>1. PICK S : S = { s[Nth(K, k)] : k \in 1..m }
    OBVIOUS
  <2>2. r \in [1..m -> S] /\ DOMAIN r = 1..m
    BY <2>1, <1>7
  <2>3. r \in Seq(S)
    BY <2>2, <1>5
  <2>4. IsSequence(r) /\ Len(r) \in Nat /\ DOMAIN r = 1..Len(r)
    BY <2>3, SequencesAre
  <2>5. Len(r) = m
    BY <2>2, <2>4, <1>5
  <2> QED
    BY <2>2, <2>4, <2>5
<1>9. \A k \in 1..m : r[k] = s[Nth(K, k)]
  BY <1>7
<1> QED
  BY <1>2, <1>3, <1>5, <1>6, <1>8, <1>9

\* The items of s at the m places p[1] < p[2] < ... are r.
Picks(r, s, p, m) ==
    IsSequence(r) /\ Len(r) = m /\ \A k \in 1..m : r[k] = s[p[k]]

\* What lists the items at the places of K in their order is the selection.
LEMMA SelectionIsUnique ==
    ASSUME NEW s, IsSequence(s), NEW K \in SUBSET DOMAIN s,
           NEW r, NEW p, NEW m, Counts(p, m, K), Picks(r, s, p, m)
    PROVE  r = Select(s, K)
<1>1. IsFiniteSet(K) /\ K \in SUBSET Nat /\ IsSequence(Select(s, K)) /\ Len(Select(s, K)) = Cardinality(K)
      /\ \A k \in 1..Cardinality(K) : Select(s, K)[k] = s[Nth(K, k)]
  BY SelectionHolds
<1>2. m = Cardinality(K) /\ \A k \in 1..m : p[k] = Nth(K, k)
  BY <1>1, CountsAreUnique
<1>3. PICK t : t = Select(s, K)
  OBVIOUS
<1>4. \A k \in 1..m : r[k] = t[k]
  BY <1>1, <1>2, <1>3 DEF Picks
<1>5. PICK S : S = { r[k] : k \in DOMAIN r } \cup { t[k] : k \in DOMAIN t }
  OBVIOUS
<1>6. r \in Seq(S) /\ t \in Seq(S) /\ Len(r) = m /\ Len(t) = m
  BY <1>1, <1>2, <1>3, <1>5 DEF Picks, IsSequence
<1>7. r = t
  BY <1>4, <1>6, SeqEqual
<1> QED
  BY <1>3, <1>7

\* Nothing is selected.
LEMMA NoSelection == ASSUME NEW s PROVE Select(s, {}) = << >>
<1>1. Cardinality({}) = 0
  BY FS_EmptySet
<1>2. Select(s, {}) = [k \in 1..0 |-> s[Nth({}, k)]]
  BY <1>1 DEF Select
<1> QED
  BY <1>2

\* The places K of s, and the places L of what stands behind s.
Places(s, K, L) == K \cup { Len(s) + i : i \in L }

\* What is selected of two sequences, one behind the other.
LEMMA SelectionsJoin ==
    ASSUME NEW s, IsSequence(s), NEW t, IsSequence(t), NEW c, Joins(c, s, t),
           NEW K \in SUBSET DOMAIN s, NEW L \in SUBSET DOMAIN t
    PROVE  Select(c, Places(s, K, L)) = Select(s, K) \o Select(t, L)
<1>1. PICK n, M : n = Len(s) /\ M = Places(s, K, L) /\ M = K \cup { n + i : i \in L }
  BY DEF Places
<1>2. /\ IsSequence(c) /\ n \in Nat /\ Len(t) \in Nat /\ DOMAIN c = 1..n + Len(t)
      /\ DOMAIN s = 1..n /\ DOMAIN t = 1..Len(t)
      /\ \A i \in 1..n : c[i] = s[i]
      /\ \A i \in 1..Len(t) : c[n + i] = t[i]
  BY <1>1 DEF Joins
<1>3. PICK k, l : k = Cardinality(K) /\ l = Cardinality(L)
  OBVIOUS
<1>4. PICK a, b : a = Select(s, K) /\ b = Select(t, L)
  OBVIOUS
<1>5. /\ IsSequence(a) /\ Len(a) = k /\ k \in Nat
      /\ \A i \in 1..k : Nth(K, i) \in K /\ a[i] = s[Nth(K, i)]
      /\ \A i, j \in 1..k : i < j => Nth(K, i) < Nth(K, j)
      /\ \A i \in K : \E j \in 1..k : Nth(K, j) = i
  BY <1>3, <1>4, SelectionHolds
<1>6. /\ IsSequence(b) /\ Len(b) = l /\ l \in Nat
      /\ \A i \in 1..l : Nth(L, i) \in L /\ b[i] = t[Nth(L, i)]
      /\ \A i, j \in 1..l : i < j => Nth(L, i) < Nth(L, j)
      /\ \A i \in L : \E j \in 1..l : Nth(L, j) = i
  BY <1>3, <1>4, SelectionHolds
<1>7. PICK r : r = a \o b
  OBVIOUS
<1>8. /\ IsSequence(r) /\ Len(r) = k + l
      /\ \A i \in 1..k : r[i] = a[i]
      /\ \A i \in 1..l : r[k + i] = b[i]
  <2>1. Joins(r, a, b)
    BY <1>5, <1>6, <1>7, ConcatJoins
  <2> QED
    BY <2>1, <1>5, <1>6 DEF Joins
<1>9. PICK p : p = [i \in 1..k + l |-> IF i <= k THEN Nth(K, i) ELSE n + Nth(L, i - k)]
  OBVIOUS
<1>10. M \in SUBSET DOMAIN c
  BY <1>1, <1>2
<1>11. \A i \in 1..k : i \in 1..k + l /\ p[i] = Nth(K, i) /\ p[i] \in K /\ p[i] \in 1..n
  BY <1>2, <1>5, <1>6, <1>9
<1>12. \A i \in 1..l : k + i \in 1..k + l /\ p[k + i] = n + Nth(L, i) /\ Nth(L, i) \in L
                       /\ Nth(L, i) \in 1..Len(t)
  <2> TAKE i \in 1..l
  <2>1. k + i \in 1..k + l /\ ~(k + i <= k) /\ (k + i) - k = i
    BY <1>5, <1>6
  <2> QED
    BY <2>1, <1>2, <1>6, <1>9
<1>13. \A i \in 1..k + l : i \in 1..k \/ \E j \in 1..l : i = k + j
  <2> TAKE i \in 1..k + l
  <2>1. CASE i <= k
    BY <2>1, <1>5, <1>6
  <2>2. CASE i > k
    <3>1. i - k \in 1..l /\ i = k + (i - k)
      BY <2>2, <1>5, <1>6
    <3> QED
      BY <3>1
  <2> QED
    BY <2>1, <2>2, <1>5, <1>6
<1>14. Counts(p, k + l, M)
  <2>1. k + l \in Nat
    BY <1>5, <1>6
  <2>2. \A i \in 1..k + l : p[i] \in M
    <3> TAKE i \in 1..k + l
    <3>1. CASE i \in 1..k
      BY <3>1, <1>1, <1>11
    <3>2. CASE \E j \in 1..l : i = k + j
      BY <3>2, <1>1, <1>12
    <3> QED
      BY <3>1, <3>2, <1>13
  <2>3. \A i, j \in 1..k + l : i < j => p[i] < p[j]
    <3> SUFFICES ASSUME NEW i \in 1..k + l, NEW j \in 1..k + l, i < j
                 PROVE  p[i] < p[j]
      OBVIOUS
    <3>1. CASE j \in 1..k
      <4>1. i \in 1..k
        BY <3>1, <1>5
      <4> QED
        BY <3>1, <4>1, <1>5, <1>11
    <3>2. CASE i \in 1..k /\ \E x \in 1..l : j = k + x
      <4>1. PICK x \in 1..l : j = k + x
        BY <3>2
      <4>2. p[i] \in 1..n /\ p[j] = n + Nth(L, x) /\ Nth(L, x) \in 1..Len(t)
        BY <3>2, <4>1, <1>11, <1>12
      <4> QED
        BY <4>2, <1>2
    <3>3. CASE (\E x \in 1..l : i = k + x) /\ (\E x \in 1..l : j = k + x)
      <4>1. PICK x \in 1..l : i = k + x
        BY <3>3
      <4>2. PICK y \in 1..l : j = k + y
        BY <3>3
      <4>3. x < y
        BY <4>1, <4>2, <1>5
      <4>4. Nth(L, x) < Nth(L, y) /\ Nth(L, x) \in Nat /\ Nth(L, y) \in Nat
        BY <4>3, <1>2, <1>6, <1>12
      <4> QED
        BY <4>1, <4>2, <4>4, <1>2, <1>12
    <3> QED
      BY <3>1, <3>2, <3>3, <1>13
  <2>4. \A x \in M : \E i \in 1..k + l : p[i] = x
    <3> TAKE x \in M
    <3>1. CASE x \in K
      BY <3>1, <1>5, <1>11
    <3>2. CASE \E i \in L : x = n + i
      <4>1. PICK i \in L : x = n + i
        BY <3>2
      <4>2. PICK j \in 1..l : Nth(L, j) = i
        BY <1>6
      <4> QED
        BY <4>1, <4>2, <1>12
    <3> QED
      BY <3>1, <3>2, <1>1
  <2>5. p \in [1..k + l -> M]
    BY <2>2, <1>9
  <2> QED
    BY <2>1, <2>3, <2>4, <2>5 DEF Counts
<1>15. Picks(r, c, p, k + l)
  <2>1. \A i \in 1..k + l : r[i] = c[p[i]]
    <3> TAKE i \in 1..k + l
    <3>1. CASE i \in 1..k
      BY <3>1, <1>2, <1>5, <1>8, <1>11
    <3>2. CASE \E j \in 1..l : i = k + j
      <4>1. PICK j \in 1..l : i = k + j
        BY <3>2
      <4>2. r[i] = t[Nth(L, j)] /\ p[i] = n + Nth(L, j) /\ Nth(L, j) \in 1..Len(t)
        BY <4>1, <1>6, <1>8, <1>12
      <4> QED
        BY <4>2, <1>2
    <3> QED
      BY <3>1, <3>2, <1>13
  <2> QED
    BY <2>1, <1>8 DEF Picks
<1>16. r = Select(c, M)
  BY <1>2, <1>10, <1>14, <1>15, SelectionIsUnique
<1> QED
  BY <1>1, <1>4, <1>7, <1>16

-----------------------------------------------------------------------------
(* The tool calls *)

LogItems == { Log[i] : i \in DOMAIN Log }

\* What has passed a layer's checks stays checked behind it.
CheckedInv ==
    /\ tcPc \in {"hub", "napcat"} => call.tool \in {"history", "user_info"} /\ Accepts(call)
    /\ tcPc = "napcat" /\ call.tool = "history" =>
         asked.action # "get_stranger_info" /\ (asked.seq = 0 \/ asked.seq # NoMessageId)

ToolInv == ToolTypeOK /\ CheckedInv /\ NapcatSeesValidRequests

\* Nothing has been called at the start.
LEMMA ToolInvInit == ASSUME ToolInit PROVE ToolInv
<1>1. Len(Log) \in Nat /\ newest \in 1..Len(Log) + 1
  BY LogAssumption DEF ToolInit
<1> QED
  BY <1>1, BoundAssumption
  DEF ToolInit, ToolInv, ToolTypeOK, CheckedInv, NapcatSeesValidRequests, NoCall, NoWalk, NoFrames, FrameCounts

\* A call of the model is one of Calls, with any cursor if it reads the history.
LEMMA CallsAreTyped ==
    ASSUME NEW c \in ModelCalls
    PROVE  c.tool \in Tools \cup {"unknown"}
<1>1. CASE c \in Calls /\ c.tool # "history"
  BY <1>1, CallAssumption
<1> DEFINE cursors == {NoMessageId, walk.cursor} \cup Cursors
           paged(h, x) ==
             [field \in DOMAIN h \cup {"cursor"} |-> IF field = "cursor" THEN x ELSE h[field]]
<1>2. CASE \E h \in Calls, x \in cursors : h.tool = "history" /\ c = paged(h, x)
  <2>1. PICK h \in Calls, x \in cursors : h.tool = "history" /\ c = paged(h, x)
    BY <1>2
  <2>2. "tool" \in DOMAIN h
    BY CallAssumption
  <2>3. c.tool = h.tool
    BY <2>1, <2>2
  <2> QED
    BY <2>1, <2>3 DEF Tools
<1>3. \/ c \in { d \in Calls : d.tool # "history" }
      \/ c \in { paged(h, x) : h \in { d \in Calls : d.tool = "history" }, x \in cursors }
  BY DEF ModelCalls
<1> HIDE DEF paged, cursors
<1> QED
  BY <1>1, <1>2, <1>3

\* A set of positions has a last one.
LEMMA LastPosition ==
    ASSUME NEW n \in Nat, NEW T \in SUBSET (1..n), T # {}
    PROVE  \E i \in T : \A j \in T : j <= i
<1>1. PICK R : R = { pair \in Nat \X Nat : pair[1] < pair[2] }
  OBVIOUS
<1>2. IsWellFoundedOn(R, Nat)
  <2>1. R = OpToRel(<, Nat)
    BY <1>1, Zenon DEF OpToRel
  <2> QED
    BY <2>1, NatLessThanWellFounded, Zenon
<1>3. PICK U : U = { n - i : i \in T }
  OBVIOUS
<1>4. U \in SUBSET Nat
  BY <1>3
<1>5. PICK u \in U : \A v \in U : ~(<< v, u >> \in R)
  <2>1. U # {}
    BY <1>3
  <2> QED
    BY <2>1, <1>2, <1>4, WFMin
<1>6. \A v \in U : u <= v
  <2> TAKE v \in U
  <2>1. u \in Nat /\ v \in Nat /\ ~(<< v, u >> \in R)
    BY <1>5, <1>4
  <2>2. ~(v < u)
    BY <2>1, <1>1
  <2> QED
    BY <2>1, <2>2
<1>7. PICK i \in T : u = n - i
  BY <1>3
<1>8. \A j \in T : n - i <= n - j
  BY <1>3, <1>6, <1>7
<1> QED
  BY <1>7, <1>8

\* NapCat's page begins among the messages that have arrived, or behind the last one.
LEMMA StartsAreInLog ==
    ASSUME newest \in 1..Len(Log) + 1, NEW seq
    PROVE  Starts(seq) \subseteq newest..Len(Log) + 1
<1>1. Len(Log) \in Nat
  BY LogAssumption
<1> QED
  BY <1>1 DEF Starts

\* The model calls a tool; its arguments may be anything.
LEMMA CallKeepsTools ==
    ASSUME ToolInv, NEW c \in ModelCalls, CallTool(c)
    PROVE  ToolInv'
<1>1. call'.tool \in Tools \cup {"unknown"}
  <2>1. call' = c
    BY DEF CallTool
  <2> QED
    BY <2>1, CallsAreTyped
<1>2. tcPc' \in {"tool", "done"} /\ result' \in {result, "raised"}
  BY DEF CallTool, Goes, Ends
<1>3. UNCHANGED << newest, walk, frames, asked >>
  BY DEF CallTool, Goes, Ends
<1>4. ToolTypeOK'
  BY <1>1, <1>2, <1>3 DEF ToolInv, ToolTypeOK
<1> QED
  BY <1>1, <1>2, <1>3, <1>4 DEF ToolInv, CheckedInv, NapcatSeesValidRequests

\* What the tool has checked and what FastAPI checks make up a valid request.
LEMMA HubAsksValidly ==
    ASSUME ToolInv, HubAsks
    PROVE  ToolInv'
<1>1. UNCHANGED << call, frames, newest, walk >> /\ tcPc' \in {"napcat", "done"} /\ result' \in {result, "isError"}
  BY DEF HubAsks, Goes, Ends
<1>2. ToolTypeOK'
  BY <1>1 DEF ToolInv, ToolTypeOK
<1>3. CASE tcPc' = "done"
  BY <1>1, <1>2, <1>3 DEF ToolInv, CheckedInv, NapcatSeesValidRequests
<1>4. CASE tcPc' = "napcat"
  <2>1. Valid(call) /\ asked' = Request(call) /\ tcPc = "hub"
    BY <1>4 DEF HubAsks, Goes, Ends
  <2>2. call.tool \in {"history", "user_info"} /\ Accepts(call)
    BY <2>1 DEF ToolInv, CheckedInv
  <2>3. CASE call.tool = "user_info"
    <3>1. asked'.id = call.user /\ asked'.action = "get_stranger_info" /\ call.user >= 1
      BY <2>1, <2>2, <2>3 DEF Request, Accepts
    <3> QED
      BY <3>1, <1>1, <1>2, <1>4, <2>2, <2>3 DEF ToolInv, CheckedInv, NapcatSeesValidRequests
  <2>4. CASE call.tool = "history"
    <3>1. /\ asked'.id = call.peer /\ asked'.count = call.limit
          /\ asked'.seq = IF call.cursor = NoMessageId THEN 0 ELSE call.cursor
          /\ asked'.action \in {"get_group_msg_history", "get_friend_msg_history"}
      BY <2>1, <2>4 DEF Request
    <3>2. call.peer >= 1 /\ call.limit \in 1..50 /\ (call.cursor # NoMessageId => call.cursor >= 1)
      BY <2>1, <2>4 DEF Valid
    <3>3. (asked'.seq = 0 \/ asked'.seq >= 1) /\ (asked'.seq = 0 \/ asked'.seq # NoMessageId)
      BY <3>1, <3>2
    <3> QED
      BY <3>1, <3>2, <3>3, <1>1, <1>2, <1>4, <2>2 DEF ToolInv, CheckedInv, NapcatSeesValidRequests
  <2> QED
    BY <2>2, <2>3, <2>4
<1> QED
  BY <1>1, <1>3, <1>4

\* A page reaches the model.
LEMMA PageKeepsTools ==
    ASSUME ToolInv, NapcatAnswersHistory
    PROVE  ToolInv'
<1>1. newest \in 1..Len(Log) + 1 /\ Len(Log) \in Nat /\ walk.from \in 0..Len(Log) + 1
  BY LogAssumption DEF ToolInv, ToolTypeOK
<1>2. PICK start \in Starts(asked.seq) : walk'.from \in {start, walk.from}
  BY DEF NapcatAnswersHistory
<1>3. walk'.from \in 0..Len(Log) + 1
  BY <1>1, <1>2, StartsAreInLog
<1>4. tcPc' = "done" /\ result' = "ok" /\ UNCHANGED << call, asked, newest, frames >>
  BY DEF NapcatAnswersHistory
<1>5. ToolTypeOK'
  BY <1>3, <1>4 DEF ToolInv, ToolTypeOK
<1> QED
  BY <1>4, <1>5 DEF ToolInv, CheckedInv, NapcatSeesValidRequests

\* The other steps of the layers ask NapCat nothing.
LEMMA LayersKeepTools ==
    ASSUME ToolInv,
           \/ ToolRuns \/ RequestFails \/ NapcatAnswersUser \/ TextAnswers \/ MetadataAnswers
           \/ ContentAnswers \/ DescribeVideo \/ DescribeImage
    PROVE  ToolInv'
<1>1. CASE ToolRuns
  <2>1. /\ UNCHANGED << call, asked, frames, newest, walk >>
        /\ tcPc' \in {"done", "hub", "files"} /\ result' \in {result, "isError"}
        /\ tcPc' = "hub" => call.tool \in {"history", "user_info"} /\ Accepts(call)
    BY <1>1 DEF ToolRuns, Goes, Ends
  <2>2. ToolTypeOK'
    BY <2>1 DEF ToolInv, ToolTypeOK
  <2> QED
    BY <2>1, <2>2 DEF ToolInv, CheckedInv, NapcatSeesValidRequests
<1>2. CASE DescribeVideo
  <2>1. /\ UNCHANGED << call, asked, newest, walk >>
        /\ tcPc' = "done" /\ result' \in {"ok", "isError"}
        /\ frames'.total \in 1..MaxFrames /\ frames'.count \in FrameCounts
    BY <1>2 DEF DescribeVideo, Ends
  <2>2. ToolTypeOK'
    BY <2>1 DEF ToolInv, ToolTypeOK
  <2> QED
    BY <2>1, <2>2 DEF ToolInv, CheckedInv, NapcatSeesValidRequests
<1>3. CASE RequestFails \/ NapcatAnswersUser \/ TextAnswers \/ MetadataAnswers \/ ContentAnswers \/ DescribeImage
  <2>1. /\ UNCHANGED << call, asked, frames, newest, walk >>
        /\ tcPc' \in {"done", "content", "vision"} /\ result' \in {result, "ok", "isError"}
    BY <1>3 DEF RequestFails, NapcatAnswersUser, TextAnswers, MetadataAnswers, ContentAnswers, DescribeImage, Goes, Ends
  <2>2. ToolTypeOK'
    BY <2>1 DEF ToolInv, ToolTypeOK
  <2> QED
    BY <2>1, <2>2 DEF ToolInv, CheckedInv, NapcatSeesValidRequests
<1> QED
  BY <1>1, <1>2, <1>3

\* Every step of the exchange keeps what NapCat is asked for valid.
LEMMA ToolInvStep == ASSUME ToolInv, [Next]_allVars PROVE ToolInv'
<1>0. CASE UNCHANGED toolVars
  BY <1>0 DEF toolVars, ToolInv, ToolTypeOK, CheckedInv, NapcatSeesValidRequests
<1>1. CASE CallsTool
  BY <1>1, CallKeepsTools DEF CallsTool
<1>2. CASE ToolWorks
  BY <1>2, HubAsksValidly, PageKeepsTools, LayersKeepTools DEF ToolWorks, ToolStep
<1>3. CASE ToolReturns
  <2>1. /\ tcPc' = "idle" /\ call' = NoCall /\ result' = "ok" /\ frames' = NoFrames
        /\ UNCHANGED << newest, walk >>
    BY <1>3 DEF ToolReturns
  <2>2. ToolTypeOK'
    BY <2>1, BoundAssumption DEF ToolInv, ToolTypeOK, NoCall, NoFrames, FrameCounts
  <2> QED
    BY <2>1, <2>2 DEF ToolInv, CheckedInv, NapcatSeesValidRequests, NoCall
<1>4. CASE RunReturns
  <2>1. /\ newest' = Unseen + 1 /\ walk' = NoWalk
        /\ UNCHANGED << tcPc, call, result, asked, frames >>
    BY <1>4 DEF RunReturns
  <2>2. newest' \in 1..Len(Log) + 1
    BY <2>1, LogAssumption
  <2>3. ToolTypeOK'
    BY <2>1, <2>2, LogAssumption DEF ToolInv, ToolTypeOK, NoWalk
  <2> QED
    BY <2>1, <2>3 DEF ToolInv, CheckedInv, NapcatSeesValidRequests, NoWalk
<1>5. CASE NewMessage
  <2>1. /\ newest > 1 /\ newest' = newest - 1
        /\ UNCHANGED << tcPc, call, result, asked, walk, frames >>
    BY <1>5 DEF NewMessage, MessageArrives
  <2>2. ToolTypeOK'
    BY <2>1, LogAssumption DEF ToolInv, ToolTypeOK
  <2> QED
    BY <2>1, <2>2 DEF ToolInv, CheckedInv, NapcatSeesValidRequests
<1>6. CASE \/ HubListens \/ AgentRuns \/ AgentWorks \/ AgentAnswers \/ HubReplies \/ Shutdown
           \/ LangfuseAnswers \/ Stopped \/ UNCHANGED allVars
  BY <1>0, <1>6
  DEF HubListens, AgentRuns, AgentWorks, AgentAnswers, HubReplies, Shutdown, LangfuseAnswers, Stopped, allVars
<1> QED
  BY <1>1, <1>2, <1>3, <1>4, <1>5, <1>6 DEF Next, Progress

\* Whatever calls, cursors and log: NapCat is only asked about positive ids, for 1 to 50
\* messages, before a positive message id or from the newest on.
THEOREM RequestsAreValid == Spec => [](ToolInv /\ NapcatSeesValidRequests)
<1>1. Init => ToolInv
  BY ToolInvInit DEF Init
<1>2. ToolInv /\ [Next]_allVars => ToolInv'
  BY ToolInvStep
<1>3. ToolInv => NapcatSeesValidRequests
  BY DEF ToolInv
<1> QED
  BY <1>1, <1>2, <1>3, PTL DEF Spec

-----------------------------------------------------------------------------
(* The walk through the history *)

\* The places of a page that hold a message with an id.
IdPlaces(page) == { i \in DOMAIN page : page[i] \notin {NoMessageId, NotADict} }

\* The ids of two pages, one behind the other.
LEMMA IdsJoin ==
    ASSUME NEW s, IsSequence(s), NEW t, IsSequence(t)
    PROVE  Ids(s \o t) = Ids(s) \o Ids(t)
<1>1. PICK c : c = s \o t
  OBVIOUS
<1>2. Joins(c, s, t)
  BY <1>1, ConcatJoins
<1>3. IdPlaces(c) = IdPlaces(s) \cup { Len(s) + i : i \in IdPlaces(t) }
  <2>1. ASSUME NEW i \in IdPlaces(c)
        PROVE  i \in IdPlaces(s) \/ \E j \in IdPlaces(t) : i = Len(s) + j
    <3>1. i \in 1..Len(s) + Len(t) /\ c[i] \notin {NoMessageId, NotADict}
      BY <1>2, <2>1 DEF IdPlaces, Joins
    <3>2. CASE i <= Len(s)
      BY <3>1, <3>2, <1>2 DEF IdPlaces, Joins
    <3>3. CASE i > Len(s)
      <4>1. PICK j \in 1..Len(t) : i = Len(s) + j
        <5>1. i - Len(s) \in 1..Len(t) /\ i = Len(s) + (i - Len(s))
          BY <3>1, <3>3, <1>2 DEF Joins
        <5> QED
          BY <5>1
      <4> QED
        BY <4>1, <3>1, <1>2 DEF IdPlaces, Joins
    <3> QED
      BY <3>1, <3>2, <3>3, <1>2 DEF Joins
  <2>2. \A i \in IdPlaces(s) : i \in IdPlaces(c)
    BY <1>2 DEF IdPlaces, Joins
  <2>3. \A j \in IdPlaces(t) : Len(s) + j \in IdPlaces(c)
    BY <1>2 DEF IdPlaces, Joins
  <2> QED
    BY <2>1, <2>2, <2>3
<1>4. IdPlaces(s) \in SUBSET DOMAIN s /\ IdPlaces(t) \in SUBSET DOMAIN t
  BY DEF IdPlaces
<1>5. Select(c, IdPlaces(c)) = Select(s, IdPlaces(s)) \o Select(t, IdPlaces(t))
  <2>1. IdPlaces(c) = Places(s, IdPlaces(s), IdPlaces(t))
    BY <1>3 DEF Places
  <2> QED
    BY <2>1, <1>2, <1>4, SelectionsJoin
<1> QED
  BY <1>1, <1>5 DEF Ids, IdPlaces

\* A part of the log, and its items.
Part(a, b) == SubSeq(Log, a, b)

LEMMA PartHolds ==
    ASSUME NEW a \in 1..Len(Log) + 1, NEW b \in a - 1..Len(Log)
    PROVE  /\ IsSequence(Part(a, b)) /\ Len(Part(a, b)) = b - a + 1
           /\ DOMAIN Part(a, b) = 1..b - a + 1
           /\ \A i \in 1..b - a + 1 : Part(a, b)[i] = Log[a + i - 1]
           /\ \A x \in a..b : x - a + 1 \in 1..b - a + 1 /\ Part(a, b)[x - a + 1] = Log[x]
<1>1. Log \in Seq(LogItems) /\ Len(Log) \in Nat /\ DOMAIN Log = 1..Len(Log)
  BY LogAssumption DEF LogItems
<1>2. a \in Int /\ b \in Int /\ \A i \in a..b : Log[i] \in LogItems
  BY <1>1
<1>3. PICK p : p = SubSeq(Log, a, b)
  OBVIOUS
<1>4. /\ p \in Seq(LogItems) /\ Len(p) = IF a <= b THEN b - a + 1 ELSE 0
      /\ \A i \in 1..b - a + 1 : p[i] = Log[a + i - 1]
  BY <1>2, <1>3, SubSeqProperties
<1>5. Len(p) = b - a + 1 /\ IsSequence(p) /\ DOMAIN p = 1..Len(p)
  BY <1>1, <1>4, SequencesAre
<1>6. \A x \in a..b : x - a + 1 \in 1..b - a + 1 /\ p[x - a + 1] = Log[x]
  <2> TAKE x \in a..b
  <2>1. x - a + 1 \in 1..b - a + 1 /\ a + (x - a + 1) - 1 = x
    BY <1>1
  <2> QED
    BY <2>1, <1>4
<1> QED
  BY <1>3, <1>4, <1>5, <1>6 DEF Part

\* A message of the log, with its id.
HasId(x) == x \in DOMAIN Log /\ Log[x] \notin {NoMessageId, NotADict}

\* Without ids between l and b, the ids up to b are those up to l.
LEMMA OddItemsAreSkipped ==
    ASSUME NEW a \in 1..Len(Log) + 1, NEW b \in a - 1..Len(Log), NEW l \in a - 1..b,
           \A x \in l + 1..b : ~HasId(x)
    PROVE  Ids(Part(a, b)) = Ids(Part(a, l))
<1>1. Log \in Seq(LogItems) /\ Len(Log) \in Nat /\ DOMAIN Log = 1..Len(Log)
  BY LogAssumption DEF LogItems
<1>2. PICK s : s = Part(a, l)
  OBVIOUS
<1>3. PICK t : t = Part(l + 1, b)
  OBVIOUS
<1>4. l \in a - 1..Len(Log) /\ b \in l..Len(Log) /\ l + 1 \in 1..Len(Log) + 1 /\ b \in (l + 1) - 1..Len(Log)
  BY <1>1
<1>5. Part(a, b) = s \o t
  BY <1>1, <1>2, <1>3, <1>4, ConcatAdjacentSubSeq DEF Part
<1>6. IsSequence(s) /\ IsSequence(t) /\ DOMAIN t = 1..b - (l + 1) + 1
      /\ \A i \in 1..b - (l + 1) + 1 : t[i] = Log[(l + 1) + i - 1]
  BY <1>2, <1>3, <1>4, PartHolds
<1>7. IdPlaces(t) = {}
  <2> SUFFICES ASSUME NEW i \in DOMAIN t
               PROVE  t[i] \in {NoMessageId, NotADict}
    BY DEF IdPlaces
  <2>1. i \in 1..b - (l + 1) + 1 /\ l + i \in l + 1..b /\ (l + 1) + i - 1 = l + i
    <3>1. l \in Int /\ b \in Int
      BY <1>1
    <3>2. i \in 1..b - (l + 1) + 1
      BY <1>6
    <3> QED
      BY <3>1, <3>2
  <2>2. t[i] = Log[l + i] /\ l + i \in DOMAIN Log
    BY <2>1, <1>1, <1>4, <1>6
  <2> QED
    BY <2>1, <2>2 DEF HasId
<1>8. Ids(t) = << >>
  BY <1>7, NoSelection DEF Ids, IdPlaces
<1>9. Ids(s \o t) = Ids(s) \o << >>
  BY <1>6, <1>8, IdsJoin
<1>10. PICK r : r = Ids(s)
  OBVIOUS
<1>11. IsSequence(r)
  BY <1>6, <1>10, SelectionHolds DEF Ids
<1>12. r \o << >> = r
  BY <1>11, ConcatEmptySeq DEF IsSequence
<1> QED
  BY <1>2, <1>5, <1>9, <1>10, <1>12

\* The ids up to a message that has one end with it.
LEMMA IdsEndWithTheLast ==
    ASSUME NEW l, HasId(l), NEW a \in 1..l
    PROVE  /\ IsSequence(Ids(Part(a, l))) /\ Ids(Part(a, l)) # << >>
           /\ Ids(Part(a, l))[Len(Ids(Part(a, l)))] = Log[l]
<1>1. Log \in Seq(LogItems) /\ Len(Log) \in Nat /\ DOMAIN Log = 1..Len(Log)
  BY LogAssumption DEF LogItems
<1>2. l \in 1..Len(Log) /\ a \in 1..Len(Log) + 1 /\ l \in a - 1..Len(Log) /\ l \in a..l
  BY <1>1 DEF HasId
<1>3. PICK s : s = Part(a, l)
  OBVIOUS
<1>4. PICK n : n = l - a + 1
  OBVIOUS
<1>5. IsSequence(s) /\ DOMAIN s = 1..n /\ n \in 1..n /\ s[n] = Log[l] /\ n \in Nat
  BY <1>2, <1>3, <1>4, PartHolds
<1>6. PICK K : K = IdPlaces(s)
  OBVIOUS
<1>7. K \in SUBSET DOMAIN s /\ n \in K /\ \A i \in K : i <= n
  BY <1>5, <1>6 DEF IdPlaces, HasId
<1>8. PICK r, k : r = Select(s, K) /\ k = Cardinality(K)
  OBVIOUS
<1>9. /\ IsSequence(r) /\ Len(r) = k /\ k \in Nat
      /\ \A i \in 1..k : Nth(K, i) \in K /\ r[i] = s[Nth(K, i)]
      /\ \A i, j \in 1..k : i < j => Nth(K, i) < Nth(K, j)
      /\ \A i \in K : \E j \in 1..k : Nth(K, j) = i
  BY <1>5, <1>7, <1>8, SelectionHolds
<1>10. PICK j \in 1..k : Nth(K, j) = n
  BY <1>7, <1>9
<1>11. j = k
  <2> SUFFICES ASSUME j < k
               PROVE  FALSE
    BY <1>9
  <2>1. k \in 1..k /\ Nth(K, j) < Nth(K, k) /\ Nth(K, k) <= n
    BY <1>7, <1>9
  <2> QED
    BY <2>1, <1>5, <1>7, <1>9, <1>10
<1>12. r[k] = Log[l] /\ r # << >>
  BY <1>5, <1>9, <1>10, <1>11
<1>13. r = Ids(s)
  BY <1>6, <1>8 DEF Ids, IdPlaces
<1> QED
  BY <1>3, <1>9, <1>12, <1>13

\* A page of the log with an id in it: the last message that has one is where it ends,
\* for the ids and for the cursor.
LEMMA PageEnds ==
    ASSUME NEW a \in 1..Len(Log) + 1, NEW b \in a - 1..Len(Log)
    PROVE  \/ /\ \A x \in a..b : ~HasId(x)
              /\ NextCursor(Part(a, b)) = NoMessageId
           \/ \E l \in a..b : /\ HasId(l) /\ \A x \in l + 1..b : ~HasId(x)
                              /\ NextCursor(Part(a, b)) = Log[l]
<1>1. Log \in Seq(LogItems) /\ Len(Log) \in Nat /\ DOMAIN Log = 1..Len(Log)
  BY LogAssumption DEF LogItems
<1>2. PICK s : s = Part(a, b)
  OBVIOUS
<1>3. PICK n : n = b - a + 1
  OBVIOUS
<1>4. /\ n \in Nat /\ IsSequence(s) /\ DOMAIN s = 1..n
      /\ \A i \in 1..n : s[i] = Log[a + i - 1]
      /\ \A x \in a..b : x - a + 1 \in 1..n /\ s[x - a + 1] = Log[x]
  BY <1>1, <1>2, <1>3, PartHolds
<1>5. CASE IdPlaces(s) = {}
  <2>1. NextCursor(s) = NoMessageId
    BY <1>5 DEF NextCursor, IdPlaces
  <2>2. \A x \in a..b : ~HasId(x)
    BY <1>4, <1>5 DEF HasId, IdPlaces
  <2> QED
    BY <2>1, <2>2, <1>2
<1>6. CASE IdPlaces(s) # {}
  <2>1. PICK K : K = IdPlaces(s)
    OBVIOUS
  <2>2. K \in SUBSET (1..n) /\ K # {}
    BY <2>1, <1>4, <1>6 DEF IdPlaces
  <2>3. \E i \in K : \A j \in K : j <= i
    BY <2>2, <1>4, LastPosition
  <2>4. PICK k : k = CHOOSE i \in K : \A j \in K : j <= i
    OBVIOUS
  <2>5. k \in K /\ \A j \in K : j <= k
    BY <2>3, <2>4
  <2>6. NextCursor(s) = s[k]
    BY <2>1, <2>2, <2>4 DEF NextCursor, IdPlaces
  <2>7. PICK l : l = a + k - 1
    OBVIOUS
  <2>8. l \in a..b /\ s[k] = Log[l] /\ l \in DOMAIN Log
    BY <2>2, <2>5, <2>7, <1>1, <1>3, <1>4
  <2>9. HasId(l)
    BY <2>1, <2>5, <2>8 DEF HasId, IdPlaces
  <2>10. \A x \in l + 1..b : ~HasId(x)
    <3> TAKE x \in l + 1..b
    <3>1. x \in a..b /\ x - a + 1 > k
      BY <2>2, <2>5, <2>7, <2>8, <1>3, <1>4
    <3>2. x - a + 1 \in 1..n /\ s[x - a + 1] = Log[x] /\ x - a + 1 \notin K
      BY <3>1, <2>2, <2>5, <1>4
    <3> QED
      BY <3>2, <2>1, <1>4 DEF HasId, IdPlaces
  <2> QED
    BY <2>6, <2>8, <2>9, <2>10, <1>2
<1> QED
  BY <1>5, <1>6

\* What has been read of the history: nothing, or the ids up to a message whose id the
\* cursor is, or was until a page without ids ended the walk.
WalkHolds ==
    \/ walk.seen = << >> /\ walk.cursor = NoMessageId
    \/ \E l \in DOMAIN Log :
         /\ HasId(l) /\ walk.from \in newest..l
         /\ walk.seen = Ids(Part(walk.from, l)) /\ walk.cursor \in {NoMessageId, Log[l]}

\* A call is made while the run waits for it.
CallInv == tcPc # "idle" => trPc = "call"

WalkInv == WalkHolds /\ CallInv

\* Where NapCat's page ends.
LEMMA PageIsPart ==
    ASSUME NEW count \in 1..50, NEW a \in 1..Len(Log) + 1
    PROVE  \E b \in a - 1..Len(Log) : Page(a, count) = Part(a, b)
<1>1. Len(Log) \in Nat
  BY LogAssumption
<1>2. PICK b : b = IF a + count - 1 < Len(Log) THEN a + count - 1 ELSE Len(Log)
  OBVIOUS
<1>3. b \in a - 1..Len(Log)
  <2>1. CASE a + count - 1 < Len(Log)
    BY <2>1, <1>1, <1>2
  <2>2. CASE ~(a + count - 1 < Len(Log))
    BY <2>2, <1>1, <1>2
  <2> QED
    BY <2>1, <2>2
<1>4. Page(a, count) = Part(a, b)
  BY <1>2 DEF Page, Part
<1> QED
  BY <1>3, <1>4

\* A part of the log without ids.
LEMMA OddPart ==
    ASSUME NEW a \in 1..Len(Log) + 1, NEW b \in a - 1..Len(Log), \A x \in a..b : ~HasId(x)
    PROVE  Ids(Part(a, b)) = << >>
<1>1. PICK s : s = Part(a, b)
  OBVIOUS
<1>2. /\ DOMAIN s = 1..b - a + 1 /\ Len(Log) \in Nat /\ DOMAIN Log = 1..Len(Log)
      /\ \A i \in 1..b - a + 1 : s[i] = Log[a + i - 1]
  BY <1>1, PartHolds, LogAssumption
<1>3. IdPlaces(s) = {}
  <2> SUFFICES ASSUME NEW i \in DOMAIN s
               PROVE  s[i] \in {NoMessageId, NotADict}
    BY DEF IdPlaces
  <2>1. a + i - 1 \in a..b /\ a + i - 1 \in DOMAIN Log
    BY <1>2
  <2> QED
    BY <2>1, <1>2 DEF HasId
<1>4. Ids(s) = << >>
  BY <1>3, NoSelection DEF Ids, IdPlaces
<1> QED
  BY <1>1, <1>4

\* The first page of a walk.
LEMMA FirstPage ==
    ASSUME NEW a \in 1..Len(Log) + 1, NEW b \in a - 1..Len(Log),
           newest' \in 1..a,
           walk' = [from |-> a, cursor |-> NextCursor(Part(a, b)), seen |-> << >> \o Ids(Part(a, b))]
    PROVE  WalkHolds'
<1>1. Len(Log) \in Nat /\ DOMAIN Log = 1..Len(Log)
  BY LogAssumption
<1>2. PICK r : r = Ids(Part(a, b))
  OBVIOUS
<1>3. IsSequence(r)
  BY <1>2, PartHolds, SelectionHolds DEF Ids
<1>4. walk'.from = a /\ walk'.cursor = NextCursor(Part(a, b)) /\ walk'.seen = r
  <2>1. << >> \o r = r
    BY <1>3, ConcatEmptySeq DEF IsSequence
  <2> QED
    BY <2>1, <1>2
<1>5. CASE (\A x \in a..b : ~HasId(x)) /\ NextCursor(Part(a, b)) = NoMessageId
  BY <1>2, <1>4, <1>5, OddPart DEF WalkHolds
<1>6. CASE \E l \in a..b : /\ HasId(l) /\ \A x \in l + 1..b : ~HasId(x)
                           /\ NextCursor(Part(a, b)) = Log[l]
  <2>1. PICK l \in a..b : HasId(l) /\ (\A x \in l + 1..b : ~HasId(x)) /\ NextCursor(Part(a, b)) = Log[l]
    BY <1>6
  <2>2. l \in a - 1..b /\ a \in newest'..l /\ l \in DOMAIN Log
    BY <1>1, <2>1
  <2>3. r = Ids(Part(a, l))
    BY <1>2, <2>1, <2>2, OddItemsAreSkipped
  <2> QED
    BY <1>4, <2>1, <2>2, <2>3 DEF WalkHolds, HasId, Ids, Part
<1> QED
  BY <1>5, <1>6, PageEnds

\* A page behind what has been read up to l.
LEMMA NextPage ==
    ASSUME NEW l \in DOMAIN Log, HasId(l), NEW a \in 1..l, NEW b \in l..Len(Log),
           newest' \in 1..a,
           walk' = [from |-> a, cursor |-> NextCursor(Part(l + 1, b)),
                    seen |-> Ids(Part(a, l)) \o Ids(Part(l + 1, b))]
    PROVE  WalkHolds'
<1>1. Log \in Seq(LogItems) /\ Len(Log) \in Nat /\ DOMAIN Log = 1..Len(Log)
  BY LogAssumption DEF LogItems
<1>2. /\ a \in newest'..l /\ a \in 1..Len(Log) + 1 /\ l \in a - 1..Len(Log) /\ b \in a - 1..Len(Log) /\ l \in a - 1..b
      /\ l + 1 \in 1..Len(Log) + 1 /\ b \in (l + 1) - 1..Len(Log)
  BY <1>1
<1>3. PICK s, t : s = Part(a, l) /\ t = Part(l + 1, b)
  OBVIOUS
<1>4. IsSequence(s) /\ IsSequence(t)
  BY <1>2, <1>3, PartHolds
<1>5. Part(a, b) = s \o t
  BY <1>1, <1>2, <1>3, ConcatAdjacentSubSeq DEF Part
<1>6. walk'.from = a /\ walk'.cursor = NextCursor(Part(l + 1, b)) /\ walk'.seen = Ids(Part(a, b))
  <2>1. Ids(s \o t) = Ids(s) \o Ids(t)
    BY <1>4, IdsJoin
  <2> QED
    BY <2>1, <1>3, <1>5
<1>7. CASE (\A x \in l + 1..b : ~HasId(x)) /\ NextCursor(Part(l + 1, b)) = NoMessageId
  <2>1. Ids(Part(a, b)) = Ids(Part(a, l))
    BY <1>2, <1>7, OddItemsAreSkipped
  <2>2. /\ HasId(l) /\ walk'.from \in newest'..l
        /\ walk'.seen = Ids(Part(walk'.from, l)) /\ walk'.cursor \in {NoMessageId, Log[l]}
    BY <2>1, <1>2, <1>6, <1>7
  <2> QED
    BY <2>2 DEF WalkHolds, HasId, Ids, Part
<1>8. CASE \E k \in l + 1..b : /\ HasId(k) /\ \A x \in k + 1..b : ~HasId(x)
                               /\ NextCursor(Part(l + 1, b)) = Log[k]
  <2>1. PICK k \in l + 1..b : HasId(k) /\ (\A x \in k + 1..b : ~HasId(x)) /\ NextCursor(Part(l + 1, b)) = Log[k]
    BY <1>8
  <2>2. k \in a - 1..b /\ a \in newest'..k /\ k \in DOMAIN Log
    BY <1>1, <2>1
  <2>3. Ids(Part(a, b)) = Ids(Part(a, k))
    BY <1>2, <2>1, <2>2, OddItemsAreSkipped
  <2> QED
    BY <1>6, <2>1, <2>2, <2>3 DEF WalkHolds, HasId, Ids, Part
<1> QED
  BY <1>2, <1>7, <1>8, PageEnds

\* A page reaches the model: behind the last one, or as the first of a new walk.
LEMMA PageKeepsWalk ==
    ASSUME ToolInv, WalkInv, NapcatAnswersHistory
    PROVE  WalkHolds'
<1>1. asked.count \in 1..50 /\ newest \in 1..Len(Log) + 1 /\ newest' = newest /\ Len(Log) \in Nat
  BY LogAssumption DEF ToolInv, ToolTypeOK, CheckedInv, NapcatSeesValidRequests, NapcatAnswersHistory
<1>2. PICK onward \in BOOLEAN : onward = (asked.seq # 0 /\ asked.seq = walk.cursor)
  OBVIOUS
<1>3. PICK start \in Starts(asked.seq) :
        walk' = [from |-> IF onward THEN walk.from ELSE start,
                 cursor |-> NextCursor(Page(start, asked.count)),
                 seen |-> (IF onward THEN walk.seen ELSE << >>) \o Ids(Page(start, asked.count))]
  BY <1>2 DEF NapcatAnswersHistory
<1>4. start \in newest..Len(Log) + 1 /\ start \in 1..Len(Log) + 1 /\ newest \in 1..start
  <2>1. start \in newest..Len(Log) + 1
    BY <1>1, <1>3, StartsAreInLog
  <2> QED
    BY <2>1, <1>1
<1>5. PICK b \in start - 1..Len(Log) : Page(start, asked.count) = Part(start, b)
  BY <1>1, <1>4, PageIsPart
<1>6. CASE ~onward
  <2>1. walk' = [from |-> start, cursor |-> NextCursor(Part(start, b)),
                 seen |-> << >> \o Ids(Part(start, b))]
    BY <1>3, <1>5, <1>6
  <2> QED
    BY <2>1, <1>1, <1>4, FirstPage
<1>7. CASE onward
  <2>1. asked.seq = walk.cursor /\ asked.seq # 0 /\ asked.seq # NoMessageId
    BY <1>2, <1>7 DEF ToolInv, CheckedInv, NapcatAnswersHistory
  <2>2. PICK l \in DOMAIN Log :
          /\ HasId(l) /\ walk.from \in newest..l
          /\ walk.seen = Ids(Part(walk.from, l)) /\ walk.cursor = Log[l]
    BY <2>1 DEF WalkInv, WalkHolds
  <2>3. l \in newest..Len(Log) /\ l \in 1..Len(Log) /\ Log[l] = asked.seq
    <3>1. l \in 1..Len(Log)
      BY LogAssumption
    <3> QED
      BY <3>1, <2>1, <2>2, <1>1
  <2>4. \A i \in newest..Len(Log) : Log[i] = asked.seq => i = l
    <3> TAKE i \in newest..Len(Log)
    <3>1. i \in DOMAIN Log
      BY <1>1, LogAssumption
    <3> QED
      BY <3>1, <2>1, <2>2, LogAssumption DEF HasId
  <2>5. start = l + 1
    <3>1. PICK known : known = { i \in newest..Len(Log) : Log[i] = asked.seq }
      OBVIOUS
    <3>2. known = {l}
      BY <3>1, <2>3, <2>4
    <3>3. Starts(asked.seq) = { i + 1 : i \in known }
      BY <3>1, <3>2, <2>1 DEF Starts
    <3> QED
      BY <3>2, <3>3, <1>3
  <2>6. PICK a : a = walk.from
    OBVIOUS
  <2>7. a \in 1..l /\ newest' \in 1..a /\ b \in l..Len(Log)
    BY <2>2, <2>3, <2>5, <2>6, <1>1
  <2>8. walk' = [from |-> a, cursor |-> NextCursor(Part(l + 1, b)),
                 seen |-> Ids(Part(a, l)) \o Ids(Part(l + 1, b))]
    BY <2>2, <2>5, <2>6, <1>3, <1>5, <1>7
  <2> QED
    BY <2>2, <2>7, <2>8, NextPage
<1> QED
  BY <1>6, <1>7

\* Nothing has been read or called.
LEMMA NothingRead == ASSUME walk = NoWalk, tcPc = "idle" PROVE WalkInv
BY DEF WalkInv, WalkHolds, CallInv, NoWalk

\* The steps of a call: a page is the only one that moves the walk.
LEMMA LayersReadOn ==
    ASSUME ToolInv, WalkInv, ToolWorks
    PROVE  WalkInv'
<1>1. trPc = "call" /\ UNCHANGED << trPc, newest >>
  <2>1. tcPc # "idle" /\ UNCHANGED << trPc, newest >>
    BY DEF ToolWorks, ToolStep, ToolRuns, RequestFails, HubAsks, NapcatAnswersHistory, NapcatAnswersUser,
           TextAnswers, MetadataAnswers, ContentAnswers, DescribeVideo, DescribeImage, Goes, Ends, traceVars
  <2> QED
    BY <2>1 DEF WalkInv, CallInv
<1>2. CASE NapcatAnswersHistory
  BY <1>1, <1>2, PageKeepsWalk DEF WalkInv, CallInv
<1>3. CASE ~NapcatAnswersHistory
  <2>1. UNCHANGED walk
    BY <1>3
    DEF ToolWorks, ToolStep, ToolRuns, RequestFails, HubAsks, NapcatAnswersUser, TextAnswers, MetadataAnswers,
        ContentAnswers, DescribeVideo, DescribeImage, Goes, Ends
  <2>2. WalkHolds'
    BY <2>1, <1>1 DEF WalkInv, WalkHolds, HasId, Ids, Part
  <2> QED
    BY <1>1, <2>2 DEF WalkInv, CallInv
<1> QED
  BY <1>2, <1>3

\* Every step of the exchange keeps the walk: it is forgotten only with the run, and
\* no run returns while a call of it is in progress.
LEMMA WalkInvStep == ASSUME ToolInv, WalkInv, [Next]_allVars PROVE WalkInv'
<1>0. CASE UNCHANGED << tcPc, newest, walk, trPc >>
  BY <1>0 DEF WalkInv, WalkHolds, CallInv, HasId, Ids, Part
<1>1. CASE CallsTool
  <2>1. trPc = "call" /\ UNCHANGED << newest, walk, trPc >>
    BY <1>1 DEF CallsTool, CallTool, Goes, Ends, traceVars
  <2> QED
    BY <2>1 DEF WalkInv, WalkHolds, CallInv, HasId, Ids, Part
<1>2. CASE ToolWorks
  BY <1>2, LayersReadOn
<1>3. CASE ToolReturns
  <2>1. tcPc' = "idle" /\ UNCHANGED << newest, walk >>
    BY <1>3 DEF ToolReturns
  <2> QED
    BY <2>1 DEF WalkInv, WalkHolds, CallInv, HasId, Ids, Part
<1>4. CASE RunReturns
  <2>1. walk' = NoWalk /\ tcPc' = "idle"
    BY <1>4 DEF RunReturns, WalkInv, CallInv
  <2> QED
    BY <2>1 DEF WalkInv, WalkHolds, CallInv, NoWalk
<1>5. CASE NewMessage
  <2>1. newest \in Nat /\ newest' = newest - 1 /\ UNCHANGED << tcPc, trPc, walk >>
    BY <1>5 DEF NewMessage, MessageArrives, traceVars, ToolInv, ToolTypeOK
  <2>2. \A l \in DOMAIN Log : walk.from \in newest..l => walk.from \in newest'..l
    BY <2>1, LogAssumption
  <2>3. WalkHolds'
    BY <2>1, <2>2 DEF WalkInv, WalkHolds, HasId, Ids, Part
  <2> QED
    BY <2>1, <2>3 DEF WalkInv, CallInv
<1>6. CASE AgentRuns \/ AgentWorks \/ AgentAnswers
  <2>1. trPc # "call" /\ UNCHANGED << tcPc, newest, walk >>
    BY <1>6
    DEF AgentRuns, AgentWorks, AgentAnswers, StartRun, TraceStep, EnterSession, EnterRoot, Abandon,
        ModelAnswers, RunFails, OpenChild, SkipsChild, ChildEnds, Answered, Traced, Finish, ExitContext, toolVars
  <2>2. tcPc' = "idle"
    BY <2>1 DEF WalkInv, CallInv
  <2>3. WalkHolds'
    BY <2>1 DEF WalkInv, WalkHolds, HasId, Ids, Part
  <2> QED
    BY <2>2, <2>3 DEF WalkInv, CallInv
<1>7. CASE HubListens \/ HubReplies \/ Shutdown \/ LangfuseAnswers \/ Stopped \/ UNCHANGED allVars
  BY <1>0, <1>7
  DEF HubListens, HubReplies, Shutdown, BeginFlush, FlushTimesOut, LangfuseAnswers, ClientFlushes, RunVars,
      Stopped, allVars, toolVars, traceVars
<1> QED
  BY <1>1, <1>2, <1>3, <1>4, <1>5, <1>6, <1>7 DEF Next, Progress

\* What the invariant says of the walk is what the pages promise.
LEMMA WalksTile == ASSUME ToolInv, WalkInv PROVE PagesTile
<1> SUFFICES ASSUME walk.seen # << >>
             PROVE  LET last == CHOOSE i \in DOMAIN Log : Log[i] = walk.seen[Len(walk.seen)]
                    IN  /\ walk.seen = Ids(SubSeq(Log, walk.from, last))
                        /\ walk.cursor \in {NoMessageId, Log[last]}
  BY DEF PagesTile
<1>1. PICK l \in DOMAIN Log :
        /\ HasId(l) /\ walk.from \in 1..l
        /\ walk.seen = Ids(Part(walk.from, l)) /\ walk.cursor \in {NoMessageId, Log[l]}
  BY LogAssumption DEF WalkInv, WalkHolds, ToolInv, ToolTypeOK
<1>2. walk.seen[Len(walk.seen)] = Log[l]
  BY <1>1, IdsEndWithTheLast
<1>3. PICK last : last = CHOOSE i \in DOMAIN Log : Log[i] = walk.seen[Len(walk.seen)]
  OBVIOUS
<1>4. last = l
  <2>1. \A i \in DOMAIN Log : Log[i] = Log[l] => i = l
    BY <1>1, LogAssumption DEF HasId
  <2> QED
    BY <1>2, <1>3, <2>1
<1> QED
  BY <1>1, <1>3, <1>4 DEF Part

\* Whatever the chat holds and whatever arrives in it meanwhile: the pages of a walk tile
\* the history.
THEOREM PagesAreTiled == Spec => [](WalkInv /\ PagesTile)
<1>1. Init => ToolInv /\ WalkInv
  BY ToolInvInit, NothingRead DEF Init, ToolInit
<1>2. ToolInv /\ WalkInv /\ [Next]_allVars => ToolInv' /\ WalkInv'
  BY ToolInvStep, WalkInvStep
<1>3. ToolInv /\ WalkInv => PagesTile
  BY WalksTile
<1> QED
  BY <1>1, <1>2, <1>3, PTL DEF Spec

-----------------------------------------------------------------------------
(* The frames of a video *)

\* Quotient and remainder make up the number,
LEMMA DivisionIsWhole ==
    ASSUME NEW n \in Int, NEW d \in Int, d > 0
    PROVE  n = d * (n \div d) + (n % d)
BY Z3

\* lie where they should,
LEMMA DivisionHolds ==
    ASSUME NEW n \in Nat, NEW d \in Nat \ {0}
    PROVE  n \div d \in Nat /\ n % d \in 0..d - 1 /\ n = d * (n \div d) + (n % d)
<1>1. n \div d \in Nat /\ n % d \in 0..d - 1
  OBVIOUS
<1>2. n = d * (n \div d) + (n % d)
  BY DivisionIsWhole
<1> QED
  BY <1>1, <1>2

\* of which there are no others.
LEMMA DivisionIsUnique ==
    ASSUME NEW d \in Nat \ {0}, NEW a \in Nat, NEW b \in 0..d - 1
    PROVE  (d * a + b) \div d = a /\ (d * a + b) % d = b
OBVIOUS

\* From quotient a and remainder b to the nearest number, halves to the even one.
Nearest(a, b, d) == IF 2 * b < d \/ (2 * b = d /\ a % 2 = 0) THEN a ELSE a + 1

\* Rounded is that of i * (total - 1) / (count - 1).
LEMMA RoundedIsNearest ==
    ASSUME NEW T \in Nat, NEW d \in Nat \ {0}, NEW i \in Nat
    PROVE  Rounded(i, T + 1, d + 1) = Nearest((i * T) \div d, (i * T) % d, d)
<1>1. (T + 1) - 1 = T /\ (d + 1) - 1 = d
  OBVIOUS
<1> QED
  BY <1>1 DEF Rounded, Nearest

\* A sum of such numbers is rounded to the sum of the quotients or one more.
LEMMA NearestSteps ==
    ASSUME NEW d \in Nat \ {0}, NEW a \in Nat, NEW b \in 0..d - 1, NEW g \in Nat, NEW r \in 0..d - 1,
           r = 0 => b = 0
    PROVE  /\ b + r < d => Nearest(a + g, b + r, d) - Nearest(a, b, d) \in {g, g + 1}
           /\ b + r >= d => Nearest(a + g + 1, b + r - d, d) - Nearest(a, b, d) \in {g, g + 1}
BY DEF Nearest

\* The steps between neighbouring samples differ by one at most: halves that are rounded
\* to the even number never meet a step that is a whole number.
LEMMA RoundedSteps ==
    ASSUME NEW T \in Nat, NEW d \in Nat \ {0}, NEW i \in Nat
    PROVE  /\ Rounded(i, T + 1, d + 1) \in Nat
           /\ Rounded(i + 1, T + 1, d + 1) - Rounded(i, T + 1, d + 1) \in {T \div d, T \div d + 1}
<1>1. PICK g \in Nat, r \in 0..d - 1 : g = T \div d /\ T = d * g + r
  BY DivisionHolds
<1>2. i * T \in Nat
  OBVIOUS
<1>3. PICK a \in Nat, b \in 0..d - 1 : i * T = d * a + b
  BY <1>2, DivisionHolds
<1>4. (i + 1) * T = d * (a + g) + (b + r)
  <2>1. (i + 1) * T = i * T + T
    BY Z3
  <2>2. d * (a + g) = d * a + d * g
    BY Z3
  <2> QED
    BY <2>1, <2>2, <1>1, <1>3
<1>5. r = 0 => b = 0
  <2> SUFFICES ASSUME r = 0
               PROVE  b = 0
    OBVIOUS
  <2>1. T = d * g
    BY <1>1
  <2>2. i * T = d * (i * g) + 0
    BY <2>1, Z3
  <2>3. i * g \in Nat /\ 0 \in 0..d - 1
    OBVIOUS
  <2>4. (d * (i * g) + 0) % d = 0
    BY <2>3, DivisionIsUnique
  <2>5. (i * T) % d = b
    BY <1>3, DivisionIsUnique
  <2>6. (i * T) % d = 0
    BY <2>2, <2>4
  <2> QED
    BY <2>5, <2>6
<1>6. Rounded(i, T + 1, d + 1) = Nearest(a, b, d)
  <2>1. (i * T) \div d = a /\ (i * T) % d = b
    BY <1>3, DivisionIsUnique
  <2> QED
    BY <2>1, RoundedIsNearest
<1>7. CASE b + r < d
  <2>1. Rounded(i + 1, T + 1, d + 1) = Nearest(a + g, b + r, d)
    <3>1. i + 1 \in Nat /\ a + g \in Nat /\ b + r \in 0..d - 1
      BY <1>7
    <3>2. ((i + 1) * T) \div d = a + g /\ ((i + 1) * T) % d = b + r
      <4>1. PICK x \in Nat, y \in 0..d - 1 : x = a + g /\ y = b + r
        BY <3>1
      <4>2. (d * x + y) \div d = x /\ (d * x + y) % d = y
        BY DivisionIsUnique
      <4> QED
        BY <4>1, <4>2, <1>4
    <3> QED
      BY <3>2, RoundedIsNearest
  <2> QED
    BY <2>1, <1>1, <1>5, <1>6, <1>7, NearestSteps DEF Nearest
<1>8. CASE b + r >= d
  <2>1. Rounded(i + 1, T + 1, d + 1) = Nearest(a + g + 1, b + r - d, d)
    <3>1. i + 1 \in Nat /\ a + g + 1 \in Nat /\ b + r - d \in 0..d - 1
      BY <1>8
    <3>2. d * (a + g + 1) = d * (a + g) + d
      BY Z3
    <3>3. (i + 1) * T = d * (a + g + 1) + (b + r - d)
      BY <3>2, <1>4
    <3>4. ((i + 1) * T) \div d = a + g + 1 /\ ((i + 1) * T) % d = b + r - d
      <4>1. PICK x \in Nat, y \in 0..d - 1 : x = a + g + 1 /\ y = b + r - d
        BY <3>1
      <4>2. (d * x + y) \div d = x /\ (d * x + y) % d = y
        BY DivisionIsUnique
      <4> QED
        BY <4>1, <4>2, <3>3
    <3> QED
      BY <3>4, RoundedIsNearest
  <2> QED
    BY <2>1, <1>1, <1>5, <1>6, <1>8, NearestSteps DEF Nearest
<1> QED
  BY <1>7, <1>8

\* What grows at every step grows.
LEMMA StepsAscend ==
    ASSUME NEW d \in Nat, NEW f \in [0..d -> Nat], \A k \in 0..d - 1 : f[k] < f[k + 1],
           NEW i \in 0..d, NEW j \in 0..d, i < j
    PROVE  f[i] < f[j]
<1> DEFINE K == { k \in i + 1..j : f[i] < f[k] }
<1>1. K \in SUBSET (1..d) /\ i + 1 \in K
  OBVIOUS
<1>2. PICK k \in K : \A l \in K : l <= k
  <2>1. K # {}
    BY <1>1
  <2> HIDE DEF K
  <2> QED
    BY <1>1, <2>1, LastPosition
<1>3. k = j
  <2> SUFFICES ASSUME k # j
               PROVE  FALSE
    OBVIOUS
  <2>1. k \in i + 1..j - 1 /\ f[i] < f[k]
    BY <1>2
  <2>2. k \in 0..d - 1 /\ k + 1 \in 0..d
    BY <2>1
  <2>3. f[k] < f[k + 1] /\ f[i] \in Nat /\ f[k] \in Nat /\ f[k + 1] \in Nat
    BY <2>2
  <2>4. k + 1 \in K
    BY <2>1, <2>3
  <2> QED
    BY <2>1, <2>4, <1>2
<1> QED
  BY <1>2, <1>3

\* The numbers of S are f[0] to f[d], which grow by g or g + 1 at a time.
Samples(f, d, g, S) ==
    /\ d \in Nat /\ g \in Nat \ {0} /\ f \in [0..d -> Nat]
    /\ \A k \in 0..d - 1 : f[k + 1] - f[k] \in {g, g + 1}
    /\ \A k \in 0..d : f[k] \in S
    /\ \A x \in S : \E k \in 0..d : f[k] = x

\* Samples that grow by g or g + 1 at a time are as many as their numbers, and lie
\* g or g + 1 apart.
LEMMA StepsSpread ==
    ASSUME NEW f, NEW d, NEW g, NEW S, Samples(f, d, g, S)
    PROVE  /\ Cardinality(S) = d + 1
           /\ S \subseteq f[0]..f[d]
           /\ Gaps(S) \subseteq {g, g + 1}
<1> USE DEF Samples
<1>1. \A k \in 0..d - 1 : f[k] < f[k + 1]
  <2> TAKE k \in 0..d - 1
  <2>1. k \in 0..d /\ k + 1 \in 0..d
    OBVIOUS
  <2>2. f[k] \in Nat /\ f[k + 1] \in Nat
    BY <2>1
  <2>3. f[k + 1] - f[k] \in {g, g + 1}
    OBVIOUS
  <2> QED
    BY <2>2, <2>3
<1>2. \A i, j \in 0..d : i < j => f[i] < f[j]
  BY <1>1, StepsAscend
<1>3. \A i \in 0..d : f[i] \in Nat
  OBVIOUS
<1>4. Cardinality(S) = d + 1
  <2>1. f \in Surjection(0..d, S)
    BY DEF Surjection
  <2>2. f \in Injection(0..d, S)
    <3>1. \A i, j \in 0..d : f[i] = f[j] => i = j
      <4> SUFFICES ASSUME NEW i \in 0..d, NEW j \in 0..d, f[i] = f[j]
                   PROVE  i = j
        OBVIOUS
      <4>1. ~(i < j) /\ ~(j < i)
        BY <1>2, <1>3
      <4> QED
        BY <4>1
    <3> QED
      BY <2>1, <3>1 DEF Injection, Surjection, IsInjective
  <2>3. IsFiniteSet(0..d) /\ Cardinality(0..d) = d + 1
    BY FS_Interval
  <2> QED
    BY <2>1, <2>2, <2>3, FS_Surjection
<1>5. S \subseteq f[0]..f[d]
  <2> SUFFICES ASSUME NEW i \in 0..d
               PROVE  f[i] \in f[0]..f[d]
    OBVIOUS
  <2>1. 0 \in 0..d /\ d \in 0..d
    OBVIOUS
  <2>2. f[0] <= f[i]
    BY <2>1, <1>2, <1>3
  <2>3. f[i] <= f[d]
    BY <2>1, <1>2, <1>3
  <2> QED
    BY <2>1, <2>2, <2>3, <1>3
<1>6. Gaps(S) \subseteq {g, g + 1}
  <2> SUFFICES ASSUME NEW x \in S, NEW y \in S, x < y, \A k \in S : k <= x \/ k >= y
               PROVE  y - x \in {g, g + 1}
    BY DEF Gaps
  <2>1. PICK i \in 0..d : x = f[i]
    OBVIOUS
  <2>2. PICK j \in 0..d : y = f[j]
    OBVIOUS
  <2>3. i < j
    <3>1. CASE i = j
      BY <3>1, <2>1, <2>2, <1>3
    <3>2. CASE j < i
      BY <3>2, <2>1, <2>2, <1>2, <1>3
    <3> QED
      BY <3>1, <3>2
  <2>4. i \in 0..d - 1 /\ i + 1 \in 0..d
    BY <2>3
  <2>5. f[i + 1] >= y
    <3>1. f[i] < f[i + 1] /\ f[i + 1] \in S
      BY <2>4, <1>1
    <3> QED
      BY <3>1, <2>1, <2>4, <1>3
  <2>6. j = i + 1
    <3> SUFFICES ASSUME i + 1 < j
                 PROVE  FALSE
      BY <2>3
    <3>1. f[i + 1] < f[j]
      BY <2>4, <1>2
    <3> QED
      BY <3>1, <2>5, <2>2, <2>4, <1>3
  <2> QED
    BY <2>1, <2>2, <2>4, <2>6
<1> QED
  BY <1>4, <1>5, <1>6

\* The samples of a video spread over it, whatever its length and their number.
LEMMA SamplesSpread ==
    ASSUME NEW total \in Nat \ {0}, NEW count \in Nat \ {0}
    PROVE  Spread(total, count, SampleIndices(total, count))
<1> DEFINE S == SampleIndices(total, count)
<1>1. CASE total <= 1 \/ count <= 1
  <2>1. S = {0}
    BY <1>1 DEF SampleIndices
  <2>2. Cardinality({0}) = 1
    BY FS_Singleton
  <2>3. (IF total < count THEN total ELSE count) = 1
    BY <1>1
  <2>4. Gaps({0}) = {}
    BY DEF Gaps
  <2> QED
    BY <2>1, <2>2, <2>3, <2>4 DEF Spread, Gaps
<1>2. CASE total > 1 /\ count > 1
  <2>1. PICK d \in Nat \ {0} : d = (IF total < count THEN total ELSE count) - 1
    BY <1>2
  <2>2. PICK T \in Nat : T = total - 1
    OBVIOUS
  <2>3. d <= T /\ total = T + 1
    BY <2>1, <2>2
  <2>4. PICK f : f = [i \in 0..d |-> Rounded(i, T + 1, d + 1)]
    OBVIOUS
  <2>5. PICK g \in Nat : g = T \div d
    BY DivisionHolds
  <2>6. g >= 1
    <3>1. PICK r \in 0..d - 1 : T = d * g + r
      BY <2>5, DivisionHolds
    <3>2. g = 0 => T = r
      BY <3>1
    <3> QED
      BY <3>1, <3>2, <2>3
  <2>7. \A i \in Nat : /\ Rounded(i, T + 1, d + 1) \in Nat
                        /\ Rounded(i + 1, T + 1, d + 1) - Rounded(i, T + 1, d + 1) \in {g, g + 1}
    BY <2>5, RoundedSteps
  <2>8. f \in [0..d -> Nat]
    <3>1. \A i \in 0..d : i \in Nat
      OBVIOUS
    <3> QED
      BY <3>1, <2>4, <2>7
  <2>9. \A k \in 0..d - 1 : f[k + 1] - f[k] \in {g, g + 1}
    <3> TAKE k \in 0..d - 1
    <3>1. k \in Nat /\ k \in 0..d /\ k + 1 \in 0..d
      OBVIOUS
    <3>2. f[k] = Rounded(k, T + 1, d + 1) /\ f[k + 1] = Rounded(k + 1, T + 1, d + 1)
      BY <2>4, <3>1
    <3> QED
      BY <3>1, <3>2, <2>7
  <2>10. S = { f[k] : k \in 0..d }
    <3>1. S = { Rounded(i, T + 1, d + 1) : i \in 0..d }
      BY <1>2, <2>1, <2>3 DEF SampleIndices
    <3> HIDE DEF S
    <3> QED
      BY <3>1, <2>4
  <2>11. f[0] = 0 /\ f[d] = T
    <3>1. 0 \in 0..d /\ d \in 0..d /\ 0 \in 0..d - 1
      OBVIOUS
    <3>2. (d * 0 + 0) \div d = 0 /\ (d * 0 + 0) % d = 0 /\ (d * T + 0) \div d = T /\ (d * T + 0) % d = 0
      BY <3>1, DivisionIsUnique
    <3>3. 0 * T = d * 0 + 0 /\ d * T = d * T + 0
      OBVIOUS
    <3>4. Rounded(0, T + 1, d + 1) = 0 /\ Rounded(d, T + 1, d + 1) = T
      BY <3>2, <3>3, RoundedIsNearest DEF Nearest
    <3> QED
      BY <3>1, <3>4, <2>4
  <2>12. Cardinality(S) = d + 1 /\ S \subseteq f[0]..f[d] /\ Gaps(S) \subseteq {g, g + 1}
    <3> HIDE DEF S
    <3>1. Samples(f, d, g, S)
      BY <2>6, <2>8, <2>9, <2>10 DEF Samples
    <3> QED
      BY <3>1, StepsSpread
  <2>13. 0 \in S /\ T \in S
    <3>1. 0 \in 0..d /\ d \in 0..d
      OBVIOUS
    <3> HIDE DEF S
    <3> QED
      BY <3>1, <2>10, <2>11
  <2>14. \A x, y \in Gaps(S) : x - y <= 1
    <3> HIDE DEF S
    <3> QED
      BY <2>12
  <2>15. d + 1 = IF total < count THEN total ELSE count
    BY <2>1
  <2> HIDE DEF S
  <2>16. Spread(total, count, S)
    BY <2>2, <2>11, <2>12, <2>13, <2>14, <2>15 DEF Spread, Gaps
  <2> QED
    BY <2>16 DEF S
<1> QED
  BY <1>1, <1>2

\* The numbers are those of the last video that was sampled.
FrameInv ==
    /\ frames.total \in 1..MaxFrames /\ frames.count \in FrameCounts
    /\ frames.indices = SampleIndices(frames.total, frames.count)

\* Without a call the indices are those of a video of one frame.
LEMMA NoFramesSampled == ASSUME frames = NoFrames PROVE FrameInv
BY BoundAssumption DEF FrameInv, NoFrames, FrameCounts, SampleIndices

\* Only a call for a video samples anew; the end of a call forgets its frames.
LEMMA FrameInvStep == ASSUME FrameInv, [Next]_allVars PROVE FrameInv'
<1>0. CASE UNCHANGED frames
  BY <1>0 DEF FrameInv
<1>1. CASE DescribeVideo
  <2>1. PICK total \in 1..MaxFrames, count \in FrameCounts :
          frames' = [total |-> total, count |-> count, indices |-> SampleIndices(total, count)]
    BY <1>1 DEF DescribeVideo
  <2> QED
    BY <2>1 DEF FrameInv
<1>2. CASE ToolReturns
  <2>1. frames' = NoFrames
    BY <1>2 DEF ToolReturns
  <2>2. frames'.total = 1 /\ frames'.count = 1 /\ frames'.indices = {0}
    BY <2>1 DEF NoFrames
  <2> QED
    BY <2>2, BoundAssumption DEF FrameInv, FrameCounts, SampleIndices
<1>3. CASE ToolWorks /\ ~DescribeVideo
  BY <1>0, <1>3
  DEF ToolWorks, ToolStep, ToolRuns, RequestFails, HubAsks, NapcatAnswersHistory, NapcatAnswersUser,
      TextAnswers, MetadataAnswers, ContentAnswers, DescribeImage
<1>4. CASE CallsTool \/ RunReturns \/ NewMessage
  BY <1>0, <1>4 DEF CallsTool, CallTool, RunReturns, NewMessage, MessageArrives
<1>5. CASE \/ HubListens \/ AgentRuns \/ AgentWorks \/ AgentAnswers \/ HubReplies \/ Shutdown
           \/ LangfuseAnswers \/ Stopped \/ UNCHANGED allVars
  BY <1>0, <1>5
  DEF HubListens, AgentRuns, AgentWorks, AgentAnswers, HubReplies, Shutdown, LangfuseAnswers, Stopped,
      allVars, toolVars
<1> QED
  BY <1>1, <1>2, <1>3, <1>4, <1>5 DEF Next, Progress

\* A video of any length, any number of frames that the settings allow: the frames that
\* are described spread over the whole video.
THEOREM FramesAreSpread == Spec => [](FrameInv /\ FramesSpread)
<1>1. Init => FrameInv
  BY NoFramesSampled DEF Init, ToolInit
<1>2. FrameInv /\ [Next]_allVars => FrameInv'
  BY FrameInvStep
<1>3. FrameInv => FramesSpread
  <2> SUFFICES ASSUME FrameInv
               PROVE  FramesSpread
    OBVIOUS
  <2>1. frames.total \in Nat \ {0} /\ frames.count \in Nat \ {0}
    BY BoundAssumption DEF FrameInv, FrameCounts
  <2> QED
    BY <2>1, SamplesSpread DEF FrameInv, FramesSpread
<1> QED
  BY <1>1, <1>2, <1>3, PTL DEF Spec

-----------------------------------------------------------------------------
(* The reply *)

\* Items the sender can send.
Sendable(s) ==
    IsSequence(s) /\ \A i \in DOMAIN s : s[i].kind \in {"message", "upload"} /\ s[i].says # << >>

\* What has been shown or refused is behind the item to send next; while the reply is
\* sent, all of that has.
SentInv ==
    /\ Sendable(items)
    /\ IsSequence(shown)
    /\ outPc \in {"off", "plan"} => shown = << >> /\ refused = {} /\ next = 1
    /\ \A i \in DOMAIN shown : shown[i].item \in 1..next - 1
    /\ outPc = "send" => 1..next - 1 \subseteq refused \cup { shown[i].item : i \in DOMAIN shown }

OutInv == OutTypeOK /\ SentInv /\ ShownInOrder

\* Nothing has been answered at the start.
LEMMA OutInvInit == ASSUME OutInit PROVE OutInv
BY NoItem DEF OutInit, OutInv, OutTypeOK, SentInv, ShownInOrder, Sendable, NoAnswer

\* The items of two plans can all be sent.
LEMMA PlansJoin ==
    ASSUME NEW s, NEW t, Sendable(s), Sendable(t)
    PROVE  Sendable(s \o t) /\ Len(s) \in Nat /\ Len(s \o t) \in Nat /\ Len(s \o t) >= Len(s)
<1>1. IsSequence(s) /\ IsSequence(t)
  BY DEF Sendable
<1>2. PICK c : c = s \o t
  OBVIOUS
<1>3. Joins(c, s, t)
  BY <1>1, <1>2, ConcatJoins
<1>4. \A i \in DOMAIN c : c[i].kind \in {"message", "upload"} /\ c[i].says # << >>
  <2> TAKE i \in DOMAIN c
  <2>1. CASE \E j \in DOMAIN s : c[i] = s[j]
    BY <2>1 DEF Sendable
  <2>2. CASE \E j \in DOMAIN t : c[i] = t[j]
    BY <2>2 DEF Sendable
  <2> QED
    BY <2>1, <2>2, <1>3 DEF Joins
<1>5. Sendable(c)
  BY <1>3, <1>4 DEF Sendable, Joins
<1> QED
  BY <1>2, <1>3, <1>5 DEF Joins

\* A message of some segments, an upload, and what Flush gives can be sent.
LEMMA ItemsAreSendable ==
    ASSUME NEW says, says # << >>, NEW m
    PROVE  Sendable(Message(says, m)) /\ Sendable(Upload(says, m))
<1>1. PICK a : a = [kind |-> "message", says |-> says, target |-> Nodes[m].target, at |-> Nodes[m].at]
  OBVIOUS
<1>2. PICK b : b = [kind |-> "upload", says |-> says, target |-> Nodes[m].target, at |-> FALSE]
  OBVIOUS
<1>3. Sendable(<< a >>)
  BY <1>1, OneItem DEF Sendable
<1>4. Sendable(<< b >>)
  BY <1>2, OneItem DEF Sendable
<1> QED
  BY <1>1, <1>2, <1>3, <1>4 DEF Message, Upload

\* Nothing can be sent, too.
LEMMA NothingIsSendable == Sendable(<< >>)
BY NoItem DEF Sendable

\* flush_pending_segments never makes an empty message.
LEMMA FlushIsSendable == ASSUME NEW m PROVE Sendable(Flush(m))
<1>1. CASE pending = << >>
  BY <1>1, NothingIsSendable DEF Flush
<1>2. CASE pending # << >>
  BY <1>2, ItemsAreSendable DEF Flush
<1> QED
  BY <1>1, <1>2

\* Planning only adds items, and none has been sent yet.
LEMMA PlanningKeepsOut ==
    ASSUME OutInv, outPc = "plan", outPc' \in {"plan", "send"}, Sendable(items'), Len(items') \in Nat,
           UNCHANGED << chatType, answer, next, shown, refused, faults >>
    PROVE  OutInv'
<1>1. shown = << >> /\ refused = {} /\ next = 1
  BY DEF OutInv, SentInv
<1>2. shown' = << >> /\ refused' = {} /\ next' = 1
  BY <1>1
<1>3. OutTypeOK'
  BY <1>2 DEF OutInv, OutTypeOK, Sendable
<1>4. SentInv'
  BY <1>2, NoItem DEF SentInv
<1>5. ShownInOrder'
  BY <1>2, NoItem DEF ShownInOrder
<1> QED
  BY <1>3, <1>4, <1>5 DEF OutInv

\* The planner's steps.
LEMMA PlanKeepsOut ==
    ASSUME OutInv, PlanChild \/ EndMessage \/ BeginSending
    PROVE  OutInv'
<1>1. Sendable(items)
  BY DEF OutInv, SentInv
<1>2. CASE PlanChild
  <2> DEFINE m == place[1]
             segments == ChildSegments(m, place[2], Nodes[m].children[place[2]])
             uploads == ChildUploads(m, place[2], Nodes[m].children[place[2]])
             upload == IF uploads = << >> THEN << >> ELSE Upload(uploads, m)
  <2>1. /\ outPc = "plan" /\ UNCHANGED << outPc, chatType, answer, next, shown, refused, faults >>
        /\ \/ items' = items \o Flush(m) \o upload
           \/ items' = items
           \/ items' = items \o Message(segments, m) /\ segments # << >>
    BY <1>2 DEF PlanChild
  <2>2. Sendable(items \o Flush(m))
    BY <1>1, FlushIsSendable, PlansJoin
  <2>3. Sendable(upload)
    BY ItemsAreSendable, NothingIsSendable
  <2>4. Sendable(items \o Flush(m) \o upload)
    <3> HIDE DEF upload
    <3> QED
      BY <2>2, <2>3, PlansJoin
  <2>5. segments # << >> => Sendable(items \o Message(segments, m))
    BY <1>1, ItemsAreSendable, PlansJoin
  <2>6. Sendable(items')
    <3> HIDE DEF m, segments, uploads, upload
    <3>1. CASE items' = items
      BY <3>1, <1>1
    <3>2. CASE items' = items \o Flush(m) \o upload
      BY <3>2, <2>4
    <3>3. CASE items' = items \o Message(segments, m) /\ segments # << >>
      BY <3>3, <2>5
    <3> QED
      BY <2>1, <3>1, <3>2, <3>3
  <2>7. Len(items') \in Nat
    <3>1. IsSequence(items')
      BY <2>6 DEF Sendable
    <3> QED
      BY <3>1, SequencesAre DEF IsSequence
  <2> QED
    BY <2>1, <2>6, <2>7, PlanningKeepsOut
<1>3. CASE EndMessage
  <2>1. PICK m : m = place[1]
    OBVIOUS
  <2>2. /\ outPc = "plan" /\ UNCHANGED << outPc, chatType, answer, next, shown, refused, faults >>
        /\ items' = items \o Flush(m)
    BY <1>3, <2>1 DEF EndMessage
  <2>3. Sendable(items')
    BY <1>1, <2>2, FlushIsSendable, PlansJoin
  <2> QED
    BY <2>2, <2>3, PlanningKeepsOut
<1>4. CASE BeginSending
  BY <1>1, <1>4, PlanningKeepsOut DEF BeginSending
<1> QED
  BY <1>2, <1>3, <1>4

\* The answer arrives, or a media of it cannot be fetched.
LEMMA AnswerKeepsOut ==
    ASSUME OutInv,
           FetchFails \/ \E a \in Answers \cup {FallbackAnswer} : BeginReply(a)
    PROVE  OutInv'
<1>1. CASE FetchFails
  BY <1>1 DEF FetchFails, GivesUp, OutInv, OutTypeOK, SentInv, ShownInOrder
<1>2. CASE \E a \in Answers \cup {FallbackAnswer} : BeginReply(a)
  <2>1. PICK a \in Answers \cup {FallbackAnswer} : BeginReply(a)
    BY <1>2
  <2>2. a.form \in {"reply", "foreign", "broken", "control", "empty"}
    BY AnswerAssumption DEF FallbackAnswer
  <2>3. /\ outPc = "off" /\ outPc' \in {"plan", "over"} /\ answer' = a
        /\ faults' \subseteq {"unparsable"}
        /\ UNCHANGED << chatType, place, pending, items, next, shown, refused >>
    BY <2>1 DEF BeginReply
  <2> QED
    BY <2>2, <2>3 DEF OutInv, OutTypeOK, SentInv, ShownInOrder
<1> QED
  BY <1>1, <1>2

\* An item is shown behind all that has been shown: the earlier ones have been shown
\* or refused, since nothing has failed before.
LEMMA ShowingKeepsOrder ==
    ASSUME OutInv, outPc = "send", next <= Len(items),
           shown' = Shows(next), next' = next + 1, UNCHANGED << items, refused >>
    PROVE  /\ IsSequence(shown')
           /\ \A i \in DOMAIN shown' : shown'[i].item \in 1..next' - 1
           /\ 1..next' - 1 \subseteq refused' \cup { shown'[i].item : i \in DOMAIN shown' }
           /\ ShownInOrder'
<1>1. PICK x : x = [item |-> next, at |-> IF Prefixed(items[next]) THEN items[next].target ELSE NoTarget]
  OBVIOUS
<1>2. PICK n : n = Len(shown)
  OBVIOUS
<1>3. shown' = Append(shown, x) /\ x.item = next
  BY <1>1 DEF Shows
<1>4. /\ IsSequence(shown') /\ n \in Nat
      /\ DOMAIN shown = 1..n /\ DOMAIN shown' = 1..n + 1
      /\ shown'[n + 1] = x /\ \A i \in DOMAIN shown : shown'[i] = shown[i]
  BY <1>2, <1>3, AppendGrows DEF OutInv, SentInv
<1>5. /\ next \in Nat /\ next >= 1 /\ next' = next + 1
      /\ \A i \in 1..n : shown[i].item \in 1..next - 1
      /\ 1..next - 1 \subseteq refused \cup { shown[i].item : i \in 1..n }
  BY <1>4 DEF OutInv, OutTypeOK, SentInv
<1>6. \A i \in DOMAIN shown' : shown'[i].item \in 1..next' - 1
  <2> TAKE i \in DOMAIN shown'
  <2>1. CASE i \in 1..n
    BY <2>1, <1>4, <1>5
  <2>2. CASE i = n + 1
    BY <2>2, <1>3, <1>4, <1>5
  <2> QED
    BY <2>1, <2>2, <1>4
<1>7. \A k \in 1..next - 1 : k \in refused \/ \E i \in 1..n : shown'[i].item = k
  <2> TAKE k \in 1..next - 1
  <2>1. k \in refused \/ \E i \in 1..n : shown[i].item = k
    BY <1>5
  <2> QED
    BY <2>1, <1>4
<1>8. 1..next' - 1 \subseteq refused' \cup { shown'[i].item : i \in DOMAIN shown' }
  <2>1. ASSUME NEW k \in 1..next' - 1
        PROVE  k \in refused \/ \E i \in 1..n + 1 : shown'[i].item = k
    <3>1. CASE k \in 1..next - 1
      <4>1. CASE \E i \in 1..n : shown'[i].item = k
        BY <4>1, <1>4
      <4> QED
        BY <3>1, <4>1, <1>7
    <3>2. CASE k = next
      <4>1. n + 1 \in 1..n + 1 /\ shown'[n + 1].item = k
        BY <3>2, <1>3, <1>4
      <4> QED
        BY <4>1
    <3> QED
      BY <3>1, <3>2, <1>5
  <2> QED
    BY <2>1, <1>4
<1>9. ShownInOrder'
  <2> SUFFICES ASSUME NEW i \in 1..n + 1
               PROVE  /\ \A j \in 1..n + 1 : j < i => shown'[j].item < shown'[i].item
                      /\ 1..shown'[i].item - 1 \subseteq refused \cup { shown'[j].item : j \in 1..i }
    BY <1>4 DEF ShownInOrder
  <2>1. CASE i \in 1..n
    <3>1. /\ \A j \in 1..n : j < i => shown[j].item < shown[i].item
          /\ 1..shown[i].item - 1 \subseteq refused \cup { shown[j].item : j \in 1..i }
      BY <2>1, <1>4 DEF OutInv, ShownInOrder
    <3>2. { shown'[j].item : j \in 1..i } = { shown[j].item : j \in 1..i } /\ shown'[i] = shown[i]
      BY <2>1, <1>4
    <3>3. \A j \in 1..n + 1 : j < i => j \in 1..n /\ shown'[j] = shown[j]
      BY <2>1, <1>4
    <3> QED
      BY <3>1, <3>2, <3>3
  <2>2. CASE i = n + 1
    <3>1. shown'[i].item = next
      BY <2>2, <1>3, <1>4
    <3>2. \A j \in 1..n + 1 : j < i => shown'[j].item < next
      BY <2>2, <1>4, <1>5
    <3>3. 1..next - 1 \subseteq refused \cup { shown'[j].item : j \in 1..i }
      BY <2>2, <1>4, <1>7
    <3> QED
      BY <3>1, <3>2, <3>3
  <2> QED
    BY <2>1, <2>2, <1>4
<1> QED
  BY <1>4, <1>6, <1>8, <1>9

\* The sender's steps.
LEMMA SendKeepsOut ==
    ASSUME OutInv, SendItem \/ ItemRefused \/ ItemFails \/ ReplySent
    PROVE  OutInv'
<1>1. Len(items) \in Nat /\ DOMAIN items = 1..Len(items) /\ next \in Nat /\ next >= 1
  BY SequencesAre DEF OutInv, OutTypeOK, SentInv, Sendable, IsSequence
<1>2. CASE SendItem
  <2>1. /\ outPc = "send" /\ next <= Len(items) /\ shown' = Shows(next) /\ next' = next + 1
        /\ UNCHANGED << outPc, chatType, answer, place, pending, items, refused, faults >>
    BY <1>2 DEF SendItem
  <2>2. /\ IsSequence(shown')
        /\ \A i \in DOMAIN shown' : shown'[i].item \in 1..next' - 1
        /\ 1..next' - 1 \subseteq refused' \cup { shown'[i].item : i \in DOMAIN shown' }
        /\ ShownInOrder'
    BY <2>1, ShowingKeepsOrder
  <2>3. OutTypeOK'
    BY <1>1, <2>1 DEF OutInv, OutTypeOK
  <2>4. SentInv'
    BY <2>1, <2>2 DEF OutInv, SentInv, Sendable
  <2> QED
    BY <2>2, <2>3, <2>4 DEF OutInv
<1>3. CASE ItemRefused
  <2>1. /\ outPc = "send" /\ next <= Len(items) /\ refused' = refused \cup {next} /\ next' = next + 1
        /\ UNCHANGED << outPc, chatType, answer, place, pending, items, shown, faults >>
    BY <1>3 DEF ItemRefused
  <2>2. OutTypeOK'
    BY <1>1, <2>1 DEF OutInv, OutTypeOK
  <2>3. \A i \in DOMAIN shown' : shown'[i].item \in 1..next' - 1
    BY <1>1, <2>1 DEF OutInv, SentInv
  <2>4. 1..next' - 1 \subseteq refused' \cup { shown'[i].item : i \in DOMAIN shown' }
    <3>1. 1..next - 1 \subseteq refused \cup { shown[i].item : i \in DOMAIN shown }
      BY <2>1 DEF OutInv, SentInv
    <3>2. 1..next' - 1 = (1..next - 1) \cup {next}
      BY <1>1, <2>1
    <3> QED
      BY <2>1, <3>1, <3>2
  <2>5. SentInv'
    BY <2>1, <2>3, <2>4 DEF OutInv, SentInv, Sendable
  <2>6. ShownInOrder'
    BY <2>1 DEF OutInv, ShownInOrder
  <2> QED
    BY <2>2, <2>5, <2>6 DEF OutInv
<1>4. CASE ItemFails
  <2>1. /\ outPc = "send" /\ outPc' = "over" /\ next <= Len(items)
        /\ shown' = shown \/ shown' = Shows(next)
        /\ next' = next + 1 /\ faults' = faults \cup {"action"}
        /\ UNCHANGED << chatType, answer, place, pending, items, refused >>
    BY <1>4 DEF ItemFails, StopsSending
  <2>2. OutTypeOK'
    BY <1>1, <2>1 DEF OutInv, OutTypeOK
  <2>3. CASE shown' = shown
    <3>1. \A i \in DOMAIN shown' : shown'[i].item \in 1..next' - 1
      BY <1>1, <2>1, <2>3 DEF OutInv, SentInv
    <3>2. SentInv'
      BY <2>1, <2>3, <3>1 DEF OutInv, SentInv, Sendable
    <3>3. ShownInOrder'
      BY <2>1, <2>3 DEF OutInv, ShownInOrder
    <3> QED
      BY <2>2, <3>2, <3>3 DEF OutInv
  <2>4. CASE shown' = Shows(next)
    <3>1. /\ IsSequence(shown')
          /\ \A i \in DOMAIN shown' : shown'[i].item \in 1..next' - 1
          /\ ShownInOrder'
      BY <2>1, <2>4, ShowingKeepsOrder
    <3>2. SentInv'
      BY <2>1, <3>1 DEF OutInv, SentInv, Sendable
    <3> QED
      BY <2>2, <3>1, <3>2 DEF OutInv
  <2> QED
    BY <2>1, <2>3, <2>4
<1>5. CASE ReplySent
  BY <1>5 DEF ReplySent, OutInv, OutTypeOK, SentInv, ShownInOrder, Sendable
<1> QED
  BY <1>2, <1>3, <1>4, <1>5

-----------------------------------------------------------------------------
(* What the model is told *)

ChildTags == {"text", "face", "unsupported"} \cup MediaTypes \cup DOMAIN SegmentAttrs

\* Children the converter makes.
Tagged(children) == IsSequence(children) /\ \A i \in DOMAIN children : children[i].tag \in ChildTags

\* The window holds only events of one session that the gateway has let pass, and the
\* messages are those of the window, in order, with the at_bot of each.
WindowInv ==
    /\ \A n \in DOMAIN window : Handles(window[n]) /\ SessionKey(window[n]) = SessionKey(window[1])
    /\ IsSequence(messages)
    /\ \A n \in DOMAIN messages :
         /\ DOMAIN messages[n] = {"atBot", "children"}
         /\ Tagged(messages[n].children)
         /\ messages[n].atBot = (window[n].type = "group" /\ AtBot(window[n]))
    /\ inPc \in {"listen", "off"} => messages = << >>
    /\ inPc \in {"convert", "told"} => window # << >>
    /\ inPc = "off" => window = << >>

InInv == InTypeOK /\ WindowInv

\* Nothing has arrived at the start.
LEMMA InInvInit == ASSUME InInit PROVE InInv
<1>1. window = << >> /\ messages = << >> /\ inPc = "listen" /\ consumed = 0
  BY DEF InInit
<1>2. InTypeOK
  BY <1>1, NoItem, WindowAssumption DEF InTypeOK
<1>3. WindowInv
  BY <1>1, NoItem DEF WindowInv
<1> QED
  BY <1>2, <1>3 DEF InInv

\* An event joins the window only if it may, and only the events of its session do.
LEMMA JoinKeepsIn ==
    ASSUME InInv, NEW e \in Arrivals, JoinWindow(e)
    PROVE  InInv'
<1>1. PICK n : n = Len(window)
  OBVIOUS
<1>2. /\ inPc = "listen" /\ n < MaxWindow /\ Handles(e)
      /\ window # << >> => SessionKey(e) = SessionKey(window[1])
      /\ window' = Append(window, e) /\ UNCHANGED << inPc, messages, consumed >>
  BY <1>1 DEF JoinWindow
<1>3. window \in Seq(Arrivals) /\ n \in Nat /\ DOMAIN window = 1..n
  BY <1>1 DEF InInv, InTypeOK
<1>4. /\ window' \in Seq(Arrivals) /\ Len(window') = n + 1 /\ DOMAIN window' = 1..n + 1
      /\ window'[n + 1] = e /\ \A i \in 1..n : window'[i] = window[i]
  BY <1>1, <1>2, <1>3, AppendProperties
<1>5. messages = << >> /\ messages' = << >>
  BY <1>2 DEF InInv, WindowInv
<1>6. InTypeOK'
  BY <1>2, <1>3, <1>4, <1>5, NoItem, WindowAssumption DEF InInv, InTypeOK
<1>7. \A i \in DOMAIN window' : Handles(window'[i]) /\ SessionKey(window'[i]) = SessionKey(window'[1])
  <2> TAKE i \in DOMAIN window'
  <2>1. CASE n = 0
    BY <2>1, <1>2, <1>4
  <2>2. CASE n > 0 /\ i \in 1..n
    <3>1. Handles(window[i]) /\ SessionKey(window[i]) = SessionKey(window[1])
      BY <2>2, <1>3 DEF InInv, WindowInv
    <3>2. window'[i] = window[i] /\ window'[1] = window[1]
      BY <2>2, <1>3, <1>4
    <3> QED
      BY <3>1, <3>2
  <2>3. CASE n > 0 /\ i = n + 1
    <3>1. window # << >> /\ window'[1] = window[1] /\ window'[i] = e
      BY <2>3, <1>1, <1>3, <1>4
    <3> QED
      BY <3>1, <1>2
  <2> QED
    BY <2>1, <2>2, <2>3, <1>3, <1>4
<1>8. WindowInv'
  BY <1>2, <1>5, <1>7, NoItem DEF WindowInv
<1> QED
  BY <1>6, <1>8 DEF InInv

\* The window closes, and the conversion ends.
LEMMA TurnsKeepIn ==
    ASSUME InInv, CloseWindow \/ Told
    PROVE  InInv'
BY DEF CloseWindow, Told, InInv, InTypeOK, WindowInv

\* What a segment becomes has one of the tags of the converter.
LEMMA RenderingIsTagged ==
    ASSUME NEW s, NEW of, NEW resolved, NEW stored
    PROVE  Tagged(Render(s, of, resolved, stored))
<1>1. ASSUME NEW tag \in ChildTags, NEW shows
      PROVE  Tagged(Child(tag, of, shows))
  <2>1. PICK x : x = [tag |-> tag, of |-> of, shows |-> shows]
    OBVIOUS
  <2>2. Tagged(<< x >>)
    BY <2>1, <1>1, OneItem DEF Tagged
  <2> QED
    BY <2>1, <2>2 DEF Child
<1>2. Tagged(<< >>)
  BY NoItem DEF Tagged
<1>3. ASSUME NEW keys, NEW reason
      PROVE  Tagged(Unsupported(s, of, keys, reason))
  BY <1>1 DEF Unsupported, ChildTags
<1>4. CASE s.type = "text"
  BY <1>1, <1>2, <1>4 DEF Render, ChildTags
<1>5. CASE s.type = "face"
  BY <1>1, <1>3, <1>5 DEF Render, ChildTags
<1>6. CASE s.type \in MediaTypes
  <2>1. s.type \in ChildTags /\ s.type # "text" /\ s.type # "face"
    BY <1>6 DEF ChildTags, MediaTypes
  <2>2. Tagged(StoredMedia(s, of, resolved, stored))
    BY <2>1, <1>1, <1>3 DEF StoredMedia
  <2> QED
    BY <2>1, <2>2, <1>6 DEF Render
<1>7. CASE s.type \in DOMAIN SegmentAttrs /\ s.type \notin MediaTypes \cup {"text", "face"}
  BY <1>1, <1>7 DEF Render, ChildTags
<1>8. CASE s.type \notin DOMAIN SegmentAttrs \cup MediaTypes \cup {"text", "face"}
  BY <1>3, <1>8 DEF Render
<1> QED
  BY <1>4, <1>5, <1>6, <1>7, <1>8

\* Children behind children.
LEMMA ChildrenJoin == ASSUME NEW s, NEW t, Tagged(s), Tagged(t) PROVE Tagged(s \o t)
<1>1. IsSequence(s) /\ IsSequence(t)
  BY DEF Tagged
<1>2. PICK c : c = s \o t
  OBVIOUS
<1>3. Joins(c, s, t)
  BY <1>1, <1>2, ConcatJoins
<1>4. \A i \in DOMAIN c : c[i].tag \in ChildTags
  <2> TAKE i \in DOMAIN c
  <2>1. CASE \E j \in DOMAIN s : c[i] = s[j]
    BY <2>1 DEF Tagged
  <2>2. CASE \E j \in DOMAIN t : c[i] = t[j]
    BY <2>2 DEF Tagged
  <2> QED
    BY <2>1, <2>2, <1>3 DEF Joins
<1> QED
  BY <1>2, <1>3, <1>4 DEF Tagged, Joins

\* The next message begins, with the at_bot of its event.
LEMMA BeginKeepsIn ==
    ASSUME InInv, BeginMessage
    PROVE  InInv'
<1>1. PICK n : n = Len(messages)
  OBVIOUS
<1>2. PICK x : x = [atBot |-> window[n + 1].type = "group" /\ AtBot(window[n + 1]), children |-> << >>]
  OBVIOUS
<1>3. /\ inPc = "convert" /\ n < Len(window) /\ messages' = Append(messages, x) /\ consumed' = 0
      /\ UNCHANGED << inPc, window >>
  BY <1>1, <1>2 DEF BeginMessage
<1>4. /\ IsSequence(messages') /\ n \in Nat /\ Len(messages') = n + 1
      /\ DOMAIN messages = 1..n /\ DOMAIN messages' = 1..n + 1
      /\ messages'[n + 1] = x /\ \A i \in 1..n : messages'[i] = messages[i]
  BY <1>1, <1>3, AppendGrows DEF InInv, WindowInv
<1>5. /\ DOMAIN x = {"atBot", "children"} /\ Tagged(x.children)
      /\ x.atBot = (window[n + 1].type = "group" /\ AtBot(window[n + 1]))
  BY <1>2, NoItem DEF Tagged
<1>6. \A i \in DOMAIN messages' :
        /\ DOMAIN messages'[i] = {"atBot", "children"}
        /\ Tagged(messages'[i].children)
        /\ messages'[i].atBot = (window'[i].type = "group" /\ AtBot(window'[i]))
  <2> TAKE i \in DOMAIN messages'
  <2>1. CASE i \in 1..n
    BY <2>1, <1>3, <1>4 DEF InInv, WindowInv
  <2>2. CASE i = n + 1
    BY <2>2, <1>3, <1>4, <1>5
  <2> QED
    BY <2>1, <2>2, <1>4
<1>7. InTypeOK'
  <2>1. Len(window) \in Nat
    BY DEF InInv, InTypeOK
  <2>2. \A k \in DOMAIN messages' : \A i \in DOMAIN messages'[k].children :
          messages'[k].children[i].tag \in {"text", "face", "unsupported"} \cup MediaTypes \cup DOMAIN SegmentAttrs
    BY <1>6 DEF Tagged, ChildTags
  <2> QED
    BY <2>1, <2>2, <1>3, <1>4 DEF InInv, InTypeOK
<1>8. WindowInv'
  BY <1>3, <1>4, <1>6 DEF InInv, WindowInv
<1> QED
  BY <1>7, <1>8 DEF InInv

\* The messages of the window are sequences.
LEMMA PlacesOfEvents ==
    ASSUME window \in Seq(Arrivals), NEW n \in DOMAIN window
    PROVE  /\ IsSequence(window[n].message) /\ DOMAIN window[n].message \in SUBSET Nat
           /\ DOMAIN window[n].message = 1..Len(window[n].message) /\ Len(window[n].message) \in Nat
<1>1. window[n] \in Arrivals
  OBVIOUS
<1>2. IsSequence(window[n].message)
  BY <1>1, ArrivalAssumption DEF IsSequence
<1>3. DOMAIN window[n].message = 1..Len(window[n].message) /\ Len(window[n].message) \in Nat
  BY <1>2, SequencesAre DEF IsSequence
<1> QED
  BY <1>2, <1>3

\* A segment is converted: the last message grows, nothing else changes.
LEMMA ConvertKeepsIn ==
    ASSUME InInv, ConvertSegment
    PROVE  InInv'
<1>1. PICK n : n = Len(messages)
  OBVIOUS
<1>2. PICK children :
        /\ Tagged(children)
        /\ messages' = [messages EXCEPT ![n].children = @ \o children]
  <2>1. \E i \in Segments(n) : \E resolved, stored :
          messages' = [messages EXCEPT ![n].children = @ \o Render(window[n].message[i], i, resolved, stored)]
    BY <1>1 DEF ConvertSegment
  <2> QED
    BY <2>1, RenderingIsTagged
<1>3. inPc = "convert" /\ n > 0 /\ UNCHANGED << inPc, window >>
  BY <1>1 DEF ConvertSegment
<1>4. IsSequence(messages) /\ n \in Nat /\ DOMAIN messages = 1..n
  BY <1>1, SequencesAre DEF InInv, WindowInv, IsSequence
<1>5. /\ DOMAIN messages' = 1..n
      /\ \A i \in 1..n : i # n => messages'[i] = messages[i]
      /\ messages'[n] = [messages[n] EXCEPT !.children = @ \o children]
  <2>1. DOMAIN messages = 1..n /\ n \in 1..n
    BY <1>3, <1>4
  <2> QED
    BY <2>1, <1>2
<1>6. \A i \in 1..n :
        /\ DOMAIN messages[i] = {"atBot", "children"}
        /\ Tagged(messages[i].children)
        /\ messages[i].atBot = (window[i].type = "group" /\ AtBot(window[i]))
  BY <1>4 DEF InInv, WindowInv
<1>7. /\ DOMAIN messages'[n] = {"atBot", "children"}
      /\ messages'[n].children = messages[n].children \o children
      /\ messages'[n].atBot = messages[n].atBot
  BY <1>3, <1>4, <1>5, <1>6
<1>8. \A i \in DOMAIN messages' :
        /\ DOMAIN messages'[i] = {"atBot", "children"}
        /\ Tagged(messages'[i].children)
        /\ messages'[i].atBot = (window'[i].type = "group" /\ AtBot(window'[i]))
  <2> TAKE i \in DOMAIN messages'
  <2>1. CASE i # n
    BY <2>1, <1>3, <1>5, <1>6
  <2>2. CASE i = n
    <3>1. Tagged(messages'[n].children)
      BY <1>2, <1>3, <1>4, <1>6, <1>7, ChildrenJoin
    <3> QED
      BY <2>2, <3>1, <1>3, <1>4, <1>6, <1>7
  <2> QED
    BY <2>1, <2>2
<1>9. IsSequence(messages') /\ Len(messages') = n
  <2>1. PICK S : S = { messages'[i] : i \in 1..n }
    OBVIOUS
  <2>2. messages' = [i \in 1..n |-> messages'[i]]
    BY <1>2, <1>4
  <2>3. messages' \in [1..n -> S]
    BY <2>1, <2>2
  <2>4. messages' \in Seq(S)
    BY <2>3, <1>4
  <2>5. IsSequence(messages') /\ Len(messages') \in Nat /\ DOMAIN messages' = 1..Len(messages')
    BY <2>4, SequencesAre
  <2> QED
    BY <2>5, <1>4, <1>5
<1>10. consumed' \in Nat
  <2>1. PICK i \in Segments(n) : consumed' = i
    BY <1>1 DEF ConvertSegment
  <2>2. n \in DOMAIN window
    BY <1>1, <1>3, <1>4 DEF InInv, InTypeOK
  <2>3. DOMAIN window[n].message \in SUBSET Nat
    BY <2>2, PlacesOfEvents DEF InInv, InTypeOK
  <2> QED
    BY <2>1, <2>3 DEF Segments, MessageSegments
<1>11. InTypeOK'
  <2>1. \A k \in DOMAIN messages' : \A i \in DOMAIN messages'[k].children :
          messages'[k].children[i].tag \in {"text", "face", "unsupported"} \cup MediaTypes \cup DOMAIN SegmentAttrs
    BY <1>8 DEF Tagged, ChildTags
  <2> QED
    BY <2>1, <1>1, <1>3, <1>9, <1>10 DEF InInv, InTypeOK
<1>12. WindowInv'
  BY <1>3, <1>8, <1>9 DEF InInv, WindowInv
<1> QED
  BY <1>11, <1>12 DEF InInv

\* Every step of the exchange keeps who may speak.
LEMMA InInvStep == ASSUME InInv, [Next]_allVars PROVE InInv'
<1>0. CASE UNCHANGED inVars
  BY <1>0 DEF inVars, InInv, InTypeOK, WindowInv
<1>1. CASE HubListens
  BY <1>1, JoinKeepsIn, TurnsKeepIn, BeginKeepsIn, ConvertKeepsIn DEF HubListens, InNext
<1>2. CASE AgentRuns
  <2>1. inPc' = "off" /\ window' = << >> /\ messages' = << >> /\ consumed' = 0
    BY <1>2 DEF AgentRuns
  <2>2. InTypeOK'
    BY <2>1, NoItem, WindowAssumption DEF InTypeOK
  <2>3. WindowInv'
    BY <2>1, NoItem DEF WindowInv
  <2> QED
    BY <2>2, <2>3 DEF InInv
<1>3. CASE \/ AgentWorks \/ CallsTool \/ ToolWorks \/ ToolReturns \/ RunReturns \/ AgentAnswers \/ HubReplies
           \/ Shutdown \/ NewMessage \/ LangfuseAnswers \/ Stopped \/ UNCHANGED allVars
  BY <1>0, <1>3
  DEF AgentWorks, CallsTool, ToolWorks, ToolReturns, RunReturns, AgentAnswers, HubReplies, Shutdown,
      NewMessage, LangfuseAnswers, Stopped, allVars
<1> QED
  BY <1>1, <1>2, <1>3 DEF Next, Progress

\* Who is heard has passed the last enabled rule of the session; and where that rule
\* asks for a mention, the converter sees the at the gateway has seen: no item that is
\* no dict looks like one.
LEMMA HeardMaySpeak == ASSUME InInv PROVE OnlyAllowedSpeak
<1> SUFFICES ASSUME NEW n \in DOMAIN messages
             PROVE  /\ window[n].user # window[n].self /\ SessionKey(window[n]) = SessionKey(window[1])
                    /\ \E i \in DOMAIN Rules :
                         /\ Rules[i].session = SessionKey(window[n]) /\ Rules[i].enabled
                         /\ \A j \in i + 1..Len(Rules) :
                              Rules[j].session = SessionKey(window[n]) => ~Rules[j].enabled
                         /\ window[n].user \notin Rules[i].blocked
                         /\ window[n].type = "group" /\ Rules[i].mention => messages[n].atBot
  BY DEF OnlyAllowedSpeak
<1>1. PICK e : e = window[n]
  OBVIOUS
<1>2. n \in DOMAIN window
  <2>1. Len(messages) \in Nat /\ DOMAIN messages = 1..Len(messages) /\ Len(messages) <= Len(window)
    BY SequencesAre DEF InInv, InTypeOK, WindowInv, IsSequence
  <2>2. DOMAIN window = 1..Len(window) /\ Len(window) \in Nat
    BY DEF InInv, InTypeOK
  <2> QED
    BY <2>1, <2>2
<1>3. Handles(e) /\ SessionKey(e) = SessionKey(window[1])
  BY <1>1, <1>2 DEF InInv, WindowInv
<1>4. PICK rule \in RuleFor(SessionKey(e)) :
        e.user \notin rule.blocked /\ (e.type = "group" /\ rule.mention => Mentions(e))
  BY <1>3 DEF Handles
<1>5. PICK i \in DOMAIN Rules :
        /\ rule = Rules[i] /\ Rules[i].session = SessionKey(e) /\ Rules[i].enabled
        /\ \A k \in DOMAIN Rules : Rules[k].session = SessionKey(e) /\ Rules[k].enabled => k <= i
  BY <1>4 DEF RuleFor
<1>6. \A j \in i + 1..Len(Rules) : Rules[j].session = SessionKey(e) => ~Rules[j].enabled
  <2> TAKE j \in i + 1..Len(Rules)
  <2>1. DOMAIN Rules = 1..Len(Rules) /\ Len(Rules) \in Nat
    BY RulesAssumption
  <2>2. j \in DOMAIN Rules /\ ~(j <= i)
    BY <2>1
  <2> QED
    BY <2>2, <1>5
<1>7. Mentions(e) => AtBot(e)
  <2> SUFFICES ASSUME Mentions(e)
               PROVE  AtBot(e)
    OBVIOUS
  <2>1. PICK k \in DOMAIN e.message : e.message[k].type = "at" /\ e.message[k].id = e.self
    BY DEF Mentions
  <2>2. e.message[k] # Junk
    BY <2>1 DEF Junk
  <2> QED
    BY <2>1, <2>2 DEF Mentions, AtBot
<1>8. e.type = "group" /\ Rules[i].mention => messages[n].atBot
  BY <1>1, <1>4, <1>5, <1>7 DEF InInv, WindowInv
<1> QED
  BY <1>1, <1>3, <1>4, <1>5, <1>6, <1>8 DEF Handles

\* Whatever rules and whatever events: who the model hears may speak, and where a mention
\* is required the model sees it.
THEOREM HeardAreAllowed == Spec => [](InInv /\ OnlyAllowedSpeak)
<1>1. Init => InInv
  BY InInvInit DEF Init
<1>2. InInv /\ [Next]_allVars => InInv'
  BY InInvStep
<1>3. InInv => OnlyAllowedSpeak
  BY HeardMaySpeak
<1> QED
  BY <1>1, <1>2, <1>3, PTL DEF Spec

-----------------------------------------------------------------------------
(* What the model is told *)

\* A child stands for its segment: as what it is or as unsupported, and of a media it
\* shows only what file-service calls it.
StandsFor(child, message) ==
    /\ child.tag \in {message[child.of].type, "unsupported"}
    /\ message[child.of].type \in MediaTypes => child.shows \subseteq StoredAttrs \cup {"type", "reason"}

\* The children tell of the segments at the places T of a message, in their order.
Tells(children, message, T) ==
    /\ \A c, d \in DOMAIN children : c < d => children[c].of < children[d].of
    /\ { children[c].of : c \in DOMAIN children } = T
    /\ \A c \in DOMAIN children : StandsFor(children[c], message)

\* The places of the segments that say something, and those that have been told of.
WorthPlaces(message) == { i \in DOMAIN message : Worth(message[i]) }
ToldPlaces(n) ==
    IF n < Len(messages) \/ inPc = "told" THEN WorthPlaces(window[n].message)
    ELSE { i \in WorthPlaces(window[n].message) : i <= consumed }

ToldInv == \A n \in DOMAIN messages : Tells(messages[n].children, window[n].message, ToldPlaces(n))

\* It is what the model is promised.
LEMMA ToldAreTold == ASSUME ToldInv PROVE EverySegmentTold
BY DEF ToldInv, EverySegmentTold, Tells, StandsFor, ToldPlaces, WorthPlaces

\* A segment that says something becomes one child, which stands for it; one that says
\* nothing becomes none.
LEMMA RenderingStands ==
    ASSUME NEW message, NEW i, message[i] # Junk, NEW resolved, NEW stored
    PROVE  \/ /\ Worth(message[i])
              /\ \E x : /\ Render(message[i], i, resolved, stored) = << x >>
                        /\ x.of = i /\ StandsFor(x, message)
           \/ ~Worth(message[i]) /\ Render(message[i], i, resolved, stored) = << >>
<1>1. PICK s : s = message[i]
  OBVIOUS
<1> DEFINE One(r) == \E x : r = << x >> /\ x.of = i /\ StandsFor(x, message)
<1>2. ASSUME NEW tag \in {s.type, "unsupported"}, NEW shows,
             s.type \in MediaTypes => shows \subseteq StoredAttrs \cup {"type", "reason"}
      PROVE  One(Child(tag, i, shows))
  <2>1. PICK x : x = [tag |-> tag, of |-> i, shows |-> shows]
    OBVIOUS
  <2>2. x.of = i /\ StandsFor(x, message)
    BY <2>1, <1>1, <1>2 DEF StandsFor
  <2>3. Child(tag, i, shows) = << x >>
    BY <2>1 DEF Child
  <2> QED
    BY <2>2, <2>3
<1>3. ASSUME NEW keys, NEW reason \in {{}, {"reason"}}
      PROVE  One(Unsupported(s, i, keys, reason))
  <2>1. PICK shows : shows = {"type"} \cup reason \cup (IF s.type = "file" THEN keys \cap UnsupportedFileAttrs ELSE {})
    OBVIOUS
  <2>2. shows \subseteq StoredAttrs \cup {"type", "reason"}
    BY <2>1 DEF StoredAttrs, UnsupportedFileAttrs
  <2>3. One(Child("unsupported", i, shows))
    <3> HIDE DEF One
    <3> QED
      BY <2>2, <1>2
  <2> QED
    BY <2>1, <2>3 DEF Unsupported
<1> DEFINE r == Render(s, i, resolved, stored)
<1>4. CASE s.type = "text"
  <2>1. CASE "text" \in s.keys
    <3>1. s.type \notin MediaTypes
      BY <1>4 DEF MediaTypes
    <3>2. One(Child("text", i, {}))
      BY <1>2, <1>4, <3>1
    <3>3. r = Child("text", i, {}) /\ Worth(s)
      BY <1>1, <1>4, <2>1 DEF Render, Worth
    <3> QED
      BY <1>1, <3>2, <3>3
  <2>2. CASE "text" \notin s.keys
    BY <1>1, <1>4, <2>2 DEF Render, Worth
  <2> QED
    BY <2>1, <2>2
<1>5. CASE s.type # "text"
  <2>1. Worth(s)
    BY <1>1, <1>5 DEF Worth
  <2>2. One(r)
    <3>1. CASE s.type = "face"
      <4>1. s.type \notin MediaTypes
        BY <3>1 DEF MediaTypes
      <4>2. One(Child("face", i, {"name"})) /\ One(Unsupported(s, i, {}, {}))
        BY <4>1, <3>1, <1>2, <1>3
      <4>3. r = Child("face", i, {"name"}) \/ r = Unsupported(s, i, {}, {})
        BY <3>1 DEF Render
      <4> HIDE DEF One, r
      <4> QED
        BY <4>2, <4>3
    <3>2. CASE s.type \in MediaTypes
      <4>1. s.type # "face"
        BY <3>2 DEF MediaTypes
      <4>2. /\ One(Unsupported(s, i, s.keys, {})) /\ One(Unsupported(s, i, s.keys \cup {"url"}, {"reason"}))
            /\ One(Child(s.type, i, StoredAttrs))
        <5> HIDE DEF One
        <5> QED
          BY <1>2, <1>3
      <4>3. r \in {Unsupported(s, i, s.keys, {}), Unsupported(s, i, s.keys \cup {"url"}, {"reason"}),
                   Child(s.type, i, StoredAttrs)}
        BY <3>2, <4>1, <1>5 DEF Render, StoredMedia
      <4> HIDE DEF One, r
      <4> QED
        BY <4>2, <4>3
    <3>3. CASE s.type \notin MediaTypes \cup {"face"}
      <4>1. \A shows : One(Child(s.type, i, shows))
        <5> HIDE DEF One
        <5> QED
          BY <3>3, <1>2
      <4>2. One(Unsupported(s, i, {}, {}))
        <5> HIDE DEF One
        <5> QED
          BY <1>3
      <4>3. r = Unsupported(s, i, {}, {}) \/ \E shows : r = Child(s.type, i, shows)
        BY <3>3, <1>5 DEF Render
      <4> HIDE DEF One, r
      <4> QED
        BY <4>1, <4>2, <4>3
    <3> QED
      BY <3>1, <3>2, <3>3
  <2> QED
    BY <1>1, <2>1, <2>2
<1> QED
  BY <1>4, <1>5

\* One child more, of a later segment.
LEMMA TellsMore ==
    ASSUME NEW children, IsSequence(children), NEW message, NEW T \in SUBSET Nat, Tells(children, message, T),
           NEW x, NEW i \in Nat, x.of = i, StandsFor(x, message), \A j \in T : j < i
    PROVE  Tells(children \o << x >>, message, T \cup {i})
<1>1. PICK t, c : t = << x >> /\ c = children \o t
  OBVIOUS
<1>2. IsSequence(t) /\ DOMAIN t = 1..1 /\ Len(t) = 1 /\ t[1] = x
  BY <1>1, OneItem
<1>3. Joins(c, children, t)
  BY <1>1, <1>2, ConcatJoins
<1>4. PICK n : n = Len(children)
  OBVIOUS
<1>5. /\ n \in Nat /\ DOMAIN children = 1..n /\ DOMAIN c = 1..n + 1
      /\ \A k \in 1..n : c[k] = children[k]
      /\ c[n + 1] = x
  BY <1>2, <1>3, <1>4 DEF Joins
<1>6. \A k \in 1..n : children[k].of \in T
  BY <1>5 DEF Tells
<1>7. \A k, l \in DOMAIN c : k < l => c[k].of < c[l].of
  <2> SUFFICES ASSUME NEW k \in 1..n + 1, NEW l \in 1..n + 1, k < l
               PROVE  c[k].of < c[l].of
    BY <1>5
  <2>1. k \in 1..n
    BY <1>5
  <2>2. CASE l \in 1..n
    BY <2>1, <2>2, <1>5 DEF Tells
  <2>3. CASE l = n + 1
    BY <2>1, <2>3, <1>5, <1>6
  <2> QED
    BY <2>2, <2>3, <1>5
<1>8. { c[k].of : k \in DOMAIN c } = T \cup {i}
  <2>1. \A k \in 1..n + 1 : c[k].of \in T \cup {i}
    <3> TAKE k \in 1..n + 1
    <3>1. CASE k \in 1..n
      BY <3>1, <1>5, <1>6
    <3>2. CASE k = n + 1
      BY <3>2, <1>5
    <3> QED
      BY <3>1, <3>2, <1>5
  <2>2. \A j \in T : \E k \in 1..n + 1 : c[k].of = j
    <3> TAKE j \in T
    <3>1. PICK k \in 1..n : children[k].of = j
      BY <1>5 DEF Tells
    <3>2. k \in 1..n + 1 /\ c[k].of = j
      BY <3>1, <1>5
    <3> QED
      BY <3>2
  <2>3. n + 1 \in 1..n + 1 /\ c[n + 1].of = i
    BY <1>5
  <2> QED
    BY <2>1, <2>2, <2>3, <1>5
<1>9. \A k \in DOMAIN c : StandsFor(c[k], message)
  <2> TAKE k \in DOMAIN c
  <2>1. CASE k \in 1..n
    BY <2>1, <1>5 DEF Tells
  <2>2. CASE k = n + 1
    BY <2>2, <1>5
  <2> QED
    BY <2>1, <2>2, <1>5
<1>10. Tells(c, message, T \cup {i})
  BY <1>7, <1>8, <1>9 DEF Tells
<1> QED
  BY <1>1, <1>10

\* Nothing has been told yet.
LEMMA NothingTold == ASSUME messages = << >> PROVE ToldInv
BY NoItem DEF ToldInv

\* The messages of the window, and their places.
LEMMA ToldMessages ==
    ASSUME InInv
    PROVE  /\ IsSequence(messages) /\ Len(messages) \in Nat /\ DOMAIN messages = 1..Len(messages)
           /\ \A n \in DOMAIN messages : /\ n \in DOMAIN window
                                         /\ IsSequence(messages[n].children)
                                         /\ DOMAIN messages[n] = {"atBot", "children"}
                                         /\ DOMAIN window[n].message \in SUBSET Nat
<1>1. IsSequence(messages) /\ Len(messages) \in Nat /\ DOMAIN messages = 1..Len(messages)
  BY SequencesAre DEF InInv, WindowInv, IsSequence
<1>2. window \in Seq(Arrivals) /\ DOMAIN window = 1..Len(window) /\ Len(window) \in Nat
      /\ Len(messages) <= Len(window)
  BY DEF InInv, InTypeOK
<1>3. \A n \in DOMAIN messages : n \in DOMAIN window
  BY <1>1, <1>2
<1>4. \A n \in DOMAIN messages : IsSequence(messages[n].children) /\ DOMAIN messages[n] = {"atBot", "children"}
  BY DEF InInv, WindowInv, Tagged
<1> QED
  BY <1>1, <1>2, <1>3, <1>4, PlacesOfEvents

\* When no segment of the last message is left, all of it has been told.
LEMMA ConvertedIsTold ==
    ASSUME NEW n \in Nat, n > 0, Converted(n), DOMAIN window[n].message \in SUBSET Nat, consumed \in Nat
    PROVE  { i \in WorthPlaces(window[n].message) : i <= consumed } = WorthPlaces(window[n].message)
<1>1. \A i \in WorthPlaces(window[n].message) : i <= consumed
  <2> SUFFICES ASSUME NEW i \in DOMAIN window[n].message, Worth(window[n].message[i]), ~(i <= consumed)
               PROVE  FALSE
    BY DEF WorthPlaces
  <2>1. i > consumed /\ window[n].message[i] # Junk
    BY DEF Worth
  <2>2. i \in Segments(n)
    BY <2>1 DEF Segments, MessageSegments
  <2> QED
    BY <2>2 DEF Converted
<1> QED
  BY <1>1

\* The next message begins when all of the last one has been told; of its own nothing has.
LEMMA BeginTells ==
    ASSUME InInv, ToldInv, BeginMessage
    PROVE  ToldInv'
<1>1. PICK n : n = Len(messages)
  OBVIOUS
<1>2. PICK x : x = [atBot |-> window[n + 1].type = "group" /\ AtBot(window[n + 1]), children |-> << >>]
  OBVIOUS
<1>3. /\ inPc = "convert" /\ Converted(n) /\ messages' = Append(messages, x) /\ consumed' = 0
      /\ UNCHANGED << inPc, window >>
  BY <1>1, <1>2 DEF BeginMessage
<1>4. /\ IsSequence(messages) /\ n \in Nat /\ DOMAIN messages = 1..n
      /\ \A k \in 1..n : DOMAIN window[k].message \in SUBSET Nat
      /\ n < Len(window) /\ consumed \in Nat
  BY <1>1, ToldMessages DEF InInv, InTypeOK, BeginMessage
<1>5. /\ Len(messages') = n + 1 /\ DOMAIN messages' = 1..n + 1
      /\ messages'[n + 1] = x /\ \A i \in 1..n : messages'[i] = messages[i]
  BY <1>1, <1>3, <1>4, AppendGrows
<1>6. ASSUME NEW k \in 1..n
      PROVE  Tells(messages'[k].children, window'[k].message, ToldPlaces(k)')
  <2>1. Tells(messages[k].children, window[k].message, ToldPlaces(k))
    BY <1>4 DEF ToldInv
  <2>2. ToldPlaces(k)' = WorthPlaces(window[k].message)
    BY <1>3, <1>4, <1>5 DEF ToldPlaces, WorthPlaces
  <2>3. ToldPlaces(k) = WorthPlaces(window[k].message)
    <3>1. CASE k < n
      BY <3>1, <1>1 DEF ToldPlaces
    <3>2. CASE k = n
      <4>1. { i \in WorthPlaces(window[k].message) : i <= consumed } = WorthPlaces(window[k].message)
        BY <3>2, <1>3, <1>4, ConvertedIsTold
      <4> QED
        BY <4>1 DEF ToldPlaces
    <3> QED
      BY <3>1, <3>2, <1>4
  <2> QED
    BY <2>1, <2>2, <2>3, <1>3, <1>5
<1>7. Tells(messages'[n + 1].children, window'[n + 1].message, ToldPlaces(n + 1)')
  <2>1. messages'[n + 1].children = << >>
    BY <1>2, <1>5
  <2>2. n + 1 \in DOMAIN window
    BY <1>4 DEF InInv, InTypeOK
  <2>3. DOMAIN window[n + 1].message = 1..Len(window[n + 1].message)
    BY <2>2, PlacesOfEvents DEF InInv, InTypeOK
  <2>4. ToldPlaces(n + 1)' = {}
    <3>1. ToldPlaces(n + 1)' = { i \in WorthPlaces(window[n + 1].message) : i <= 0 }
      BY <1>3, <1>4, <1>5 DEF ToldPlaces, WorthPlaces
    <3>2. \A i \in WorthPlaces(window[n + 1].message) : ~(i <= 0)
      BY <2>3 DEF WorthPlaces
    <3> QED
      BY <3>1, <3>2
  <2> QED
    BY <2>1, <2>4, NoItem DEF Tells
<1> QED
  BY <1>4, <1>5, <1>6, <1>7 DEF ToldInv

\* The conversion ends when all of the last message has been told.
LEMMA EndTells ==
    ASSUME InInv, ToldInv, Told
    PROVE  ToldInv'
<1>1. PICK n : n = Len(messages)
  OBVIOUS
<1>2. /\ inPc = "convert" /\ inPc' = "told" /\ Converted(n) /\ UNCHANGED << window, messages, consumed >>
  BY <1>1 DEF Told
<1>3. /\ n \in Nat /\ DOMAIN messages = 1..n /\ consumed \in Nat
      /\ \A k \in 1..n : DOMAIN window[k].message \in SUBSET Nat
  BY <1>1, ToldMessages DEF InInv, InTypeOK
<1>4. ASSUME NEW k \in 1..n
      PROVE  Tells(messages'[k].children, window'[k].message, ToldPlaces(k)')
  <2>1. Tells(messages[k].children, window[k].message, ToldPlaces(k))
    BY <1>3 DEF ToldInv
  <2>2. ToldPlaces(k)' = WorthPlaces(window[k].message)
    BY <1>2 DEF ToldPlaces, WorthPlaces
  <2>3. ToldPlaces(k) = WorthPlaces(window[k].message)
    <3>1. CASE k < n
      BY <3>1, <1>1 DEF ToldPlaces
    <3>2. CASE k = n
      <4>1. { i \in WorthPlaces(window[k].message) : i <= consumed } = WorthPlaces(window[k].message)
        BY <3>2, <1>2, <1>3, ConvertedIsTold
      <4> QED
        BY <4>1 DEF ToldPlaces
    <3> QED
      BY <3>1, <3>2, <1>3
  <2> QED
    BY <2>1, <2>2, <2>3, <1>2
<1> QED
  BY <1>2, <1>3, <1>4 DEF ToldInv

\* The next segment: between the place reached and its own there is nothing to tell.
LEMMA SegmentTells ==
    ASSUME InInv, ToldInv, ConvertSegment
    PROVE  ToldInv'
<1>1. PICK n : n = Len(messages)
  OBVIOUS
<1>2. PICK message : message = window[n].message
  OBVIOUS
<1>3. PICK i, resolved, stored :
        /\ i \in Segments(n)
        /\ \A j \in Segments(n) : i <= j
        /\ messages' = [messages EXCEPT ![n].children = @ \o Render(message[i], i, resolved, stored)]
        /\ consumed' = i
  BY <1>1, <1>2 DEF ConvertSegment
<1>4. inPc = "convert" /\ n > 0 /\ UNCHANGED << inPc, window >>
  BY <1>1 DEF ConvertSegment
<1>5. /\ n \in Nat /\ DOMAIN messages = 1..n /\ consumed \in Nat /\ n \in 1..n
      /\ DOMAIN message \in SUBSET Nat /\ IsSequence(messages[n].children)
      /\ DOMAIN messages[n] = {"atBot", "children"}
  BY <1>1, <1>2, <1>4, ToldMessages DEF InInv, InTypeOK
<1>6. PICK r : r = Render(message[i], i, resolved, stored)
  OBVIOUS
<1>7. i \in DOMAIN message /\ i \in Nat /\ i > consumed /\ message[i] # Junk
  BY <1>2, <1>3, <1>5 DEF Segments, MessageSegments
<1>8. /\ DOMAIN messages' = 1..n /\ \A k \in 1..n : k # n => messages'[k] = messages[k]
      /\ messages'[n].children = messages[n].children \o r
  <2>1. messages' = [messages EXCEPT ![n].children = @ \o r]
    BY <1>3, <1>6
  <2>2. DOMAIN messages' = 1..n /\ \A k \in 1..n : k # n => messages'[k] = messages[k]
    BY <2>1, <1>5
  <2>3. messages'[n] = [messages[n] EXCEPT !.children = @ \o r]
    BY <2>1, <1>5
  <2>4. messages'[n].children = messages[n].children \o r
    BY <2>3, <1>5
  <2> QED
    BY <2>2, <2>4
<1>9. Len(messages') = n
  <2>1. InInv'
    BY ConvertKeepsIn
  <2>2. IsSequence(messages')
    BY <2>1 DEF InInv, WindowInv
  <2>3. PICK m : m = Len(messages')
    OBVIOUS
  <2>4. m \in Nat /\ 1..n = 1..m
    BY <2>2, <2>3, <1>8, SequencesAre DEF IsSequence
  <2>5. m = n
    BY <2>4, <1>5
  <2> QED
    BY <2>3, <2>5
<1>10. ASSUME NEW k \in 1..n, k # n
       PROVE  Tells(messages'[k].children, window'[k].message, ToldPlaces(k)')
  <2>1. Tells(messages[k].children, window[k].message, ToldPlaces(k))
    BY <1>5 DEF ToldInv
  <2>2. ToldPlaces(k)' = ToldPlaces(k)
    BY <1>1, <1>4, <1>5, <1>9, <1>10 DEF ToldPlaces, WorthPlaces
  <2> QED
    BY <2>1, <2>2, <1>4, <1>8, <1>10
<1>11. Tells(messages'[n].children, window'[n].message, ToldPlaces(n)')
  <2>1. PICK T : T = { j \in WorthPlaces(message) : j <= consumed }
    OBVIOUS
  <2>2. Tells(messages[n].children, message, T)
    <3>1. ToldPlaces(n) = T
      BY <2>1, <1>1, <1>2, <1>4, <1>5 DEF ToldPlaces
    <3> QED
      BY <3>1, <1>2, <1>5 DEF ToldInv
  <2>3. ToldPlaces(n)' = { j \in WorthPlaces(message) : j <= i }
    BY <1>2, <1>3, <1>4, <1>5, <1>9 DEF ToldPlaces, WorthPlaces
  <2>4. \A j \in WorthPlaces(message) : j <= i => j \in T \/ j = i
    <3> SUFFICES ASSUME NEW j \in WorthPlaces(message), j <= i, j > consumed
                 PROVE  j = i
      BY <2>1, <1>5 DEF WorthPlaces
    <3>1. j \in Segments(n) /\ j \in Nat
      BY <1>2, <1>5 DEF WorthPlaces, Worth, Segments, MessageSegments
    <3> QED
      BY <3>1, <1>3, <1>7
  <2>5. /\ T \in SUBSET Nat /\ \A j \in T : j < i /\ j <= i /\ j \in WorthPlaces(message)
    BY <2>1, <1>5, <1>7 DEF WorthPlaces
  <2>6. CASE Worth(message[i]) /\ \E x : r = << x >> /\ x.of = i /\ StandsFor(x, message)
    <3>1. PICK x : r = << x >> /\ x.of = i /\ StandsFor(x, message)
      BY <2>6
    <3>2. Tells(messages[n].children \o << x >>, message, T \cup {i})
      BY <3>1, <2>2, <2>5, <1>5, <1>7, TellsMore
    <3>3. { j \in WorthPlaces(message) : j <= i } = T \cup {i}
      <4>1. i \in WorthPlaces(message) /\ i <= i
        BY <2>6, <1>7 DEF WorthPlaces
      <4> QED
        BY <4>1, <2>4, <2>5
    <3> QED
      BY <3>1, <3>2, <3>3, <2>3, <1>2, <1>4, <1>8
  <2>7. CASE ~Worth(message[i]) /\ r = << >>
    <3>1. messages[n].children \o << >> = messages[n].children
      BY <1>5, ConcatEmptySeq DEF IsSequence
    <3>2. { j \in WorthPlaces(message) : j <= i } = T
      <4>1. i \notin WorthPlaces(message)
        BY <2>7 DEF WorthPlaces
      <4> QED
        BY <4>1, <2>4, <2>5
    <3> QED
      BY <3>1, <3>2, <2>2, <2>3, <2>7, <1>2, <1>4, <1>8
  <2> QED
    BY <2>6, <2>7, <1>6, <1>7, RenderingStands
<1> QED
  BY <1>8, <1>10, <1>11 DEF ToldInv

\* Every step of the exchange keeps what has been told complete.
LEMMA ToldInvStep == ASSUME InInv, ToldInv, [Next]_allVars PROVE ToldInv'
<1>0. CASE UNCHANGED inVars
  BY <1>0 DEF inVars, ToldInv, ToldPlaces
<1>1. CASE HubListens
  <2>1. CASE \E e \in Arrivals : JoinWindow(e)
    <3>1. messages' = << >>
      BY <2>1 DEF JoinWindow, InInv, WindowInv
    <3> QED
      BY <3>1, NoItem DEF ToldInv
  <2>2. CASE CloseWindow
    <3>1. messages' = << >>
      BY <2>2 DEF CloseWindow, InInv, WindowInv
    <3> QED
      BY <3>1, NoItem DEF ToldInv
  <2> QED
    BY <2>1, <2>2, <1>1, BeginTells, SegmentTells, EndTells DEF HubListens, InNext
<1>2. CASE AgentRuns
  <2>1. messages' = << >>
    BY <1>2 DEF AgentRuns
  <2> QED
    BY <2>1, NoItem DEF ToldInv
<1>3. CASE \/ AgentWorks \/ CallsTool \/ ToolWorks \/ ToolReturns \/ RunReturns \/ AgentAnswers \/ HubReplies
           \/ Shutdown \/ NewMessage \/ LangfuseAnswers \/ Stopped \/ UNCHANGED allVars
  BY <1>0, <1>3
  DEF AgentWorks, CallsTool, ToolWorks, ToolReturns, RunReturns, AgentAnswers, HubReplies, Shutdown,
      NewMessage, LangfuseAnswers, Stopped, allVars
<1> QED
  BY <1>1, <1>2, <1>3 DEF Next, Progress

\* Whatever QQ sends, and whatever NapCat and file-service fail at: the model is told of
\* every segment, once and in order.
THEOREM SegmentsAreTold == Spec => [](ToldInv /\ EverySegmentTold)
<1>1. Init => InInv /\ ToldInv
  BY InInvInit, NothingTold DEF Init, InInit
<1>2. InInv /\ ToldInv /\ [Next]_allVars => InInv' /\ ToldInv'
  BY InInvStep, ToldInvStep
<1>3. ToldInv => EverySegmentTold
  BY ToldAreTold
<1> QED
  BY <1>1, <1>2, <1>3, PTL DEF Spec

-----------------------------------------------------------------------------
(* The order of a reply *)

\* A run starts: the reply will go to the chat the window came from.
LEMMA RunKeepsOut ==
    ASSUME InInv, OutInv, AgentRuns
    PROVE  OutInv'
<1>1. inPc = "told" /\ chatType' = window[1].type
  BY DEF AgentRuns, SessionKey
<1>2. Handles(window[1])
  <2>1. window \in Seq(Arrivals) /\ window # << >>
    BY <1>1 DEF InInv, InTypeOK, WindowInv
  <2>2. 1 \in DOMAIN window
    BY <2>1
  <2> QED
    BY <2>2 DEF InInv, WindowInv
<1>3. chatType' \in {"private", "group"}
  BY <1>1, <1>2 DEF Handles
<1>4. UNCHANGED << outPc, answer, place, pending, items, next, shown, refused, faults >>
  BY DEF AgentRuns
<1> QED
  BY <1>3, <1>4 DEF OutInv, OutTypeOK, SentInv, ShownInOrder, Sendable

\* Every step of the exchange keeps the order of what QQ shows.
LEMMA OutInvStep == ASSUME InInv, OutInv, [Next]_allVars PROVE OutInv'
<1>0. CASE UNCHANGED outVars
  BY <1>0 DEF outVars, OutInv, OutTypeOK, SentInv, ShownInOrder, Sendable
<1>1. CASE AgentRuns
  BY <1>1, RunKeepsOut
<1>2. CASE AgentAnswers
  <2>1. \E a \in Answers \cup {FallbackAnswer} : BeginReply(a)
    BY <1>2 DEF AgentAnswers
  <2> QED
    BY <2>1, AnswerKeepsOut
<1>3. CASE HubReplies
  BY <1>3, PlanKeepsOut, AnswerKeepsOut, SendKeepsOut DEF HubReplies, OutStep
<1>4. CASE \/ HubListens \/ AgentWorks \/ CallsTool \/ ToolWorks \/ ToolReturns \/ RunReturns \/ Shutdown
           \/ NewMessage \/ LangfuseAnswers \/ Stopped \/ UNCHANGED allVars
  BY <1>0, <1>4
  DEF HubListens, AgentWorks, CallsTool, ToolWorks, ToolReturns, RunReturns, Shutdown,
      NewMessage, LangfuseAnswers, Stopped, allVars
<1> QED
  BY <1>1, <1>2, <1>3, <1>4 DEF Next, Progress

\* Whatever the answer and whatever NapCat refuses or fails at, QQ shows the reply in
\* order, without gaps but for refusals, and no part twice.
THEOREM RepliesAreShownInOrder == Spec => [](OutInv /\ ShownInOrder)
<1>1. Init => InInv /\ OutInv
  BY InInvInit, OutInvInit DEF Init
<1>2. InInv /\ OutInv /\ [Next]_allVars => InInv' /\ OutInv'
  BY InInvStep, OutInvStep
<1>3. OutInv => ShownInOrder
  BY DEF OutInv
<1> QED
  BY <1>1, <1>2, <1>3, PTL DEF Spec

-----------------------------------------------------------------------------
(* The plan of a reply *)

\* What is said one after the other, and before something else.
Ascends(s) == \A x, y \in DOMAIN s : x < y => Before(s[x].from, s[y].from)
AllBefore(A, B) == \A a \in A, b \in B : Before(a.from, b.from)

\* The items and what is pending behind them say X, each of it once and in the order of
\* the document.
Planned(plan, rest, X) ==
    /\ IsSequence(plan) /\ IsSequence(rest)
    /\ \A i \in DOMAIN plan : Ascends(plan[i].says)
    /\ \A i, j \in DOMAIN plan : i < j => AllBefore(Range(plan[i].says), Range(plan[j].says))
    /\ \A i \in DOMAIN plan : AllBefore(Range(plan[i].says), Range(rest))
    /\ Ascends(rest)
    /\ \A i \in DOMAIN plan : Range(plan[i].says) \subseteq X
    /\ Range(rest) \subseteq X
    /\ \A x \in X : x \in Range(rest) \/ \E i \in DOMAIN plan : x \in Range(plan[i].says)

\* The items of two sequences one behind the other, and their order.
LEMMA JoinedAscends ==
    ASSUME NEW s, NEW t, NEW c, Joins(c, s, t), Ascends(s), Ascends(t), AllBefore(Range(s), Range(t))
    PROVE  Ascends(c) /\ Range(c) = Range(s) \cup Range(t)
<1>1. PICK n, k : n = Len(s) /\ k = Len(t)
  OBVIOUS
<1>2. /\ n \in Nat /\ k \in Nat /\ DOMAIN s = 1..n /\ DOMAIN t = 1..k /\ DOMAIN c = 1..n + k
      /\ \A i \in 1..n : c[i] = s[i]
      /\ \A i \in 1..k : c[n + i] = t[i]
  BY <1>1 DEF Joins
<1>3. \A i \in 1..n + k : i \in 1..n \/ \E j \in 1..k : i = n + j
  <2> TAKE i \in 1..n + k
  <2>1. CASE i <= n
    BY <2>1, <1>2
  <2>2. CASE i > n
    <3>1. i - n \in 1..k /\ i = n + (i - n)
      BY <2>2, <1>2
    <3> QED
      BY <3>1
  <2> QED
    BY <2>1, <2>2, <1>2
<1>4. Ascends(c)
  <2> SUFFICES ASSUME NEW x \in 1..n + k, NEW y \in 1..n + k, x < y
               PROVE  Before(c[x].from, c[y].from)
    BY <1>2 DEF Ascends
  <2>1. CASE y \in 1..n
    <3>1. x \in 1..n
      BY <2>1, <1>2
    <3> QED
      BY <2>1, <3>1, <1>2 DEF Ascends
  <2>2. CASE x \in 1..n /\ \E j \in 1..k : y = n + j
    <3>1. PICK j \in 1..k : y = n + j
      BY <2>2
    <3>2. c[x] \in Range(s) /\ c[y] \in Range(t)
      BY <2>2, <3>1, <1>2 DEF Range
    <3> QED
      BY <3>2 DEF AllBefore
  <2>3. CASE (\E j \in 1..k : x = n + j) /\ (\E j \in 1..k : y = n + j)
    <3>1. PICK i \in 1..k : x = n + i
      BY <2>3
    <3>2. PICK j \in 1..k : y = n + j
      BY <2>3
    <3>3. i < j /\ c[x] = t[i] /\ c[y] = t[j]
      BY <3>1, <3>2, <1>2
    <3> QED
      BY <3>3, <1>2 DEF Ascends
  <2> QED
    BY <2>1, <2>2, <2>3, <1>3
<1>5. Range(c) = Range(s) \cup Range(t)
  <2>1. \A i \in 1..n + k : c[i] \in Range(s) \cup Range(t)
    <3> TAKE i \in 1..n + k
    <3>1. CASE i \in 1..n
      BY <3>1, <1>2 DEF Range
    <3>2. CASE \E j \in 1..k : i = n + j
      BY <3>2, <1>2 DEF Range
    <3> QED
      BY <3>1, <3>2, <1>3
  <2>2. \A i \in 1..n : s[i] \in Range(c)
    <3> TAKE i \in 1..n
    <3>1. i \in DOMAIN c /\ c[i] = s[i]
      BY <1>2
    <3> QED
      BY <3>1 DEF Range
  <2>3. \A i \in 1..k : t[i] \in Range(c)
    <3> TAKE i \in 1..k
    <3>1. n + i \in DOMAIN c /\ c[n + i] = t[i]
      BY <1>2
    <3> QED
      BY <3>1 DEF Range
  <2>4. \A x : x \in Range(c) => x \in Range(s) \cup Range(t)
    BY <2>1, <1>2 DEF Range
  <2>5. \A x : x \in Range(s) => x \in Range(c)
    BY <2>2, <1>2 DEF Range
  <2>6. \A x : x \in Range(t) => x \in Range(c)
    BY <2>3, <1>2 DEF Range
  <2> QED
    BY <2>4, <2>5, <2>6
<1> QED
  BY <1>4, <1>5

\* More joins what is pending, and comes behind everything that has been said.
LEMMA RestGrows ==
    ASSUME NEW plan, NEW rest, NEW X, Planned(plan, rest, X),
           NEW t, IsSequence(t), Ascends(t), AllBefore(X, Range(t))
    PROVE  Planned(plan, rest \o t, X \cup Range(t))
<1>1. PICK c : c = rest \o t
  OBVIOUS
<1>2. Joins(c, rest, t)
  BY <1>1, ConcatJoins DEF Planned
<1>3. Range(rest) \subseteq X /\ \A i \in DOMAIN plan : Range(plan[i].says) \subseteq X
  BY DEF Planned
<1>4. AllBefore(Range(rest), Range(t)) /\ \A i \in DOMAIN plan : AllBefore(Range(plan[i].says), Range(t))
  BY <1>3 DEF AllBefore
<1>5. Ascends(c) /\ Range(c) = Range(rest) \cup Range(t)
  BY <1>2, <1>4, JoinedAscends DEF Planned
<1>6. \A i \in DOMAIN plan : AllBefore(Range(plan[i].says), Range(c))
  BY <1>4, <1>5 DEF Planned, AllBefore
<1>7. /\ \A i \in DOMAIN plan : Range(plan[i].says) \subseteq X \cup Range(t)
      /\ Range(c) \subseteq X \cup Range(t)
      /\ \A x \in X \cup Range(t) : x \in Range(c) \/ \E i \in DOMAIN plan : x \in Range(plan[i].says)
  BY <1>5 DEF Planned
<1>8. IsSequence(c)
  BY <1>2 DEF Joins
<1> QED
  BY <1>1, <1>5, <1>6, <1>7, <1>8 DEF Planned

\* What is pending becomes the next item.
LEMMA RestIsItem ==
    ASSUME NEW plan, NEW rest, NEW X, Planned(plan, rest, X), NEW item, item.says = rest
    PROVE  Planned(plan \o << item >>, << >>, X)
<1>1. PICK t, c : t = << item >> /\ c = plan \o t
  OBVIOUS
<1>2. IsSequence(t) /\ DOMAIN t = 1..1 /\ Len(t) = 1 /\ t[1] = item
  BY <1>1, OneItem
<1>3. Joins(c, plan, t)
  BY <1>1, <1>2, ConcatJoins DEF Planned
<1>4. PICK n : n = Len(plan)
  OBVIOUS
<1>5. /\ IsSequence(c) /\ n \in Nat /\ DOMAIN plan = 1..n /\ DOMAIN c = 1..n + 1
      /\ \A i \in 1..n : c[i] = plan[i]
      /\ c[n + 1].says = rest
  BY <1>2, <1>3, <1>4 DEF Joins
<1>6. Range(<< >>) = {}
  BY NoItem DEF Range
<1>7. \A i \in DOMAIN c : Ascends(c[i].says)
  <2> TAKE i \in DOMAIN c
  <2>1. CASE i \in 1..n
    BY <2>1, <1>5 DEF Planned
  <2>2. CASE i = n + 1
    BY <2>2, <1>5 DEF Planned
  <2> QED
    BY <2>1, <2>2, <1>5
<1>8. \A i, j \in DOMAIN c : i < j => AllBefore(Range(c[i].says), Range(c[j].says))
  <2> SUFFICES ASSUME NEW i \in 1..n + 1, NEW j \in 1..n + 1, i < j
               PROVE  AllBefore(Range(c[i].says), Range(c[j].says))
    BY <1>5
  <2>1. i \in 1..n
    BY <1>5
  <2>2. CASE j \in 1..n
    BY <2>1, <2>2, <1>5 DEF Planned
  <2>3. CASE j = n + 1
    BY <2>1, <2>3, <1>5 DEF Planned
  <2> QED
    BY <2>2, <2>3, <1>5
<1>9. /\ \A i \in DOMAIN c : Range(c[i].says) \subseteq X
      /\ \A x \in X : \E i \in DOMAIN c : x \in Range(c[i].says)
  <2>1. ASSUME NEW i \in DOMAIN c
        PROVE  Range(c[i].says) \subseteq X
    <3>1. CASE i \in 1..n
      BY <3>1, <1>5 DEF Planned
    <3>2. CASE i = n + 1
      BY <3>2, <1>5 DEF Planned
    <3> QED
      BY <3>1, <3>2, <2>1, <1>5
  <2>2. ASSUME NEW x \in X
        PROVE  \E i \in DOMAIN c : x \in Range(c[i].says)
    <3>1. CASE \E i \in 1..n : x \in Range(plan[i].says)
      <4>1. PICK i \in 1..n : x \in Range(plan[i].says)
        BY <3>1
      <4>2. i \in 1..n + 1 /\ x \in Range(c[i].says)
        BY <4>1, <1>5
      <4> QED
        BY <4>2, <1>5
    <3>2. CASE x \in Range(rest)
      <4>1. n + 1 \in 1..n + 1
        BY <1>5
      <4> QED
        BY <3>2, <4>1, <1>5
    <3> QED
      BY <3>1, <3>2, <1>5 DEF Planned
  <2> QED
    BY <2>1, <2>2
<1>10. Planned(c, << >>, X)
  BY <1>5, <1>6, <1>7, <1>8, <1>9, NoItem DEF Planned, Ascends, AllBefore
<1> QED
  BY <1>1, <1>10

\* A function on 1..n is a sequence.
LEMMA ListedIsSequence ==
    ASSUME NEW n \in Nat, NEW f, DOMAIN f = 1..n, f = [i \in 1..n |-> f[i]]
    PROVE  IsSequence(f) /\ Len(f) = n
<1>1. PICK S : S = { f[i] : i \in 1..n }
  OBVIOUS
<1>2. f \in [1..n -> S]
  BY <1>1
<1>3. f \in Seq(S)
  BY <1>2
<1>4. PICK k : k = Len(f)
  OBVIOUS
<1>5. IsSequence(f) /\ k \in Nat /\ 1..n = 1..k
  BY <1>3, <1>4, SequencesAre
<1>6. k = n
  BY <1>5
<1> QED
  BY <1>4, <1>5, <1>6

\* The answers a reply may be of.
Known(a) == a \in Answers \cup {FallbackAnswer, NoAnswer}

\* A text of its own is a list of nodes.
LEMMA TextIsListed ==
    ASSUME NEW words \in {<< >>, << "words" >>}
    PROVE  /\ NodeList(<< Node("text", words) >>)
           /\ \A i \in DOMAIN << Node("text", words) >> : NodeList(<< Node("text", words) >>[i].children)
<1>1. PICK x, s : x = Node("text", words) /\ s = << x >>
  OBVIOUS
<1>2. x.of = words /\ x.children = << >>
  BY <1>1 DEF Node
<1>3. IsSequence(s) /\ DOMAIN s = 1..1 /\ s[1] = x
  BY <1>1, OneItem
<1>4. IsSequence(words)
  BY NoItem, OneItem
<1>5. NodeList(s)
  BY <1>2, <1>3, <1>4 DEF NodeList, IsSequence
<1>6. NodeList(<< >>)
  BY NoItem DEF NodeList, IsSequence
<1>7. \A i \in DOMAIN s : NodeList(s[i].children)
  BY <1>2, <1>3, <1>6
<1> QED
  BY <1>1, <1>5, <1>7

\* What the hub parses is a list of nodes with lists of children.
LEMMA ReplyIsListed ==
    ASSUME NEW a, Known(a)
    PROVE  NodeList(Reply(a)) /\ \A i \in DOMAIN Reply(a) : NodeList(Reply(a)[i].children)
<1>1. CASE a \in Answers /\ a.form = "reply"
  BY <1>1, AnswerAssumption DEF Reply
<1>2. CASE a = FallbackAnswer
  <2>1. Reply(a) = << Node("text", << "words" >>) >>
    BY <1>2 DEF Reply, FallbackAnswer
  <2> QED
    BY <2>1, TextIsListed
<1>3. CASE a.form # "reply"
  <2>1. \E words \in {<< >>, << "words" >>} : Reply(a) = << Node("text", words) >>
    BY <1>3 DEF Reply, TextReply
  <2> QED
    BY <2>1, TextIsListed
<1>4. NoAnswer.form # "reply"
  BY DEF NoAnswer
<1> QED
  BY <1>1, <1>2, <1>3, <1>4 DEF Known

\* The <message> nodes of a reply, or the reply as one, are a list, and so are the
\* children of each.
LEMMA NodesAreListed ==
    ASSUME Known(answer)
    PROVE  /\ IsSequence(Nodes) /\ Len(Nodes) \in Nat /\ DOMAIN Nodes = 1..Len(Nodes)
           /\ \A m \in DOMAIN Nodes : NodeList(Nodes[m].children)
<1>1. PICK root : root = Reply(answer)
  OBVIOUS
<1>2. NodeList(root) /\ \A i \in DOMAIN root : NodeList(root[i].children)
  BY <1>1, ReplyIsListed
<1>3. PICK K : K = { i \in DOMAIN root : root[i].tag = "message" }
  OBVIOUS
<1>4. PICK grouped, k : grouped = Select(root, K) /\ k = Cardinality(K)
  OBVIOUS
<1>5. /\ k \in Nat /\ DOMAIN grouped = 1..k
      /\ \A i \in 1..k : Nth(K, i) \in DOMAIN root /\ grouped[i] = root[Nth(K, i)]
  <2>1. IsSequence(root) /\ K \in SUBSET DOMAIN root
    BY <1>2, <1>3 DEF NodeList, IsSequence
  <2> QED
    BY <2>1, <1>4, SelectionHolds
<1>6. PICK f : f = Nodes
  OBVIOUS
<1>7. CASE grouped = << >>
  <2>1. PICK x : x = [children |-> root, target |-> NoTarget, at |-> FALSE, grouped |-> FALSE]
    OBVIOUS
  <2>2. f = << x >>
    BY <2>1, <1>1, <1>3, <1>4, <1>6, <1>7 DEF Nodes, MessageNodes
  <2>3. IsSequence(f) /\ DOMAIN f = 1..1 /\ f[1].children = root
    BY <2>1, <2>2, OneItem
  <2>4. Len(f) \in Nat /\ DOMAIN f = 1..Len(f)
    BY <2>3, SequencesAre DEF IsSequence
  <2> QED
    BY <2>3, <2>4, <1>2, <1>6
<1>8. CASE grouped # << >>
  <2>1. f = [m \in 1..k |-> [children |-> grouped[m].children, target |-> grouped[m].target,
                             at |-> grouped[m].at, grouped |-> TRUE]]
    BY <1>1, <1>3, <1>4, <1>5, <1>6, <1>8 DEF Nodes, MessageNodes
  <2>2. DOMAIN f = 1..k /\ f = [i \in 1..k |-> f[i]] /\ \A m \in 1..k : f[m].children = grouped[m].children
    BY <2>1
  <2>3. IsSequence(f) /\ Len(f) = k
    <3> HIDE <2>1
    <3> QED
      BY <2>2, <1>5, ListedIsSequence
  <2>4. \A m \in DOMAIN f : NodeList(f[m].children)
    BY <2>2, <1>2, <1>5
  <2> QED
    BY <2>2, <2>3, <2>4, <1>5, <1>6
<1> QED
  BY <1>7, <1>8

\* What a child says stands in the order of its parts, and comes from it.
From(s, m, c) == \A i \in DOMAIN s : s[i].from[1] = m /\ s[i].from[2] = c

LEMMA PartsAscend ==
    ASSUME NEW m, NEW c, NEW child, IsSequence(child.of)
    PROVE  IsSequence(Parts(m, c, child)) /\ Ascends(Parts(m, c, child)) /\ From(Parts(m, c, child), m, c)
<1>1. PICK n : n = Len(child.of)
  OBVIOUS
<1>2. n \in Nat /\ DOMAIN child.of = 1..n
  BY <1>1, SequencesAre DEF IsSequence
<1>3. PICK said : said = [p \in DOMAIN child.of |->
                            [tag |-> IF child.of[p] = "known" THEN "face"
                                     ELSE IF child.of[p] = "unknown" THEN "unknown" ELSE child.tag,
                             from |-> << m, c, p >>]]
  OBVIOUS
<1>4. /\ DOMAIN said = 1..n /\ said = [p \in 1..n |-> said[p]]
      /\ \A p \in 1..n : said[p].from[1] = m /\ said[p].from[2] = c /\ said[p].from[3] = p
  BY <1>2, <1>3
<1>5. IsSequence(said)
  BY <1>2, <1>4, ListedIsSequence
<1>6. PICK K, k, r : /\ K = { p \in DOMAIN said : said[p].tag # "unknown" }
                     /\ k = Cardinality(K) /\ r = Select(said, K)
  OBVIOUS
<1>7. /\ IsSequence(r) /\ DOMAIN r = 1..k /\ k \in Nat /\ K \in SUBSET (1..n)
      /\ \A i \in 1..k : Nth(K, i) \in K /\ r[i] = said[Nth(K, i)]
      /\ \A i, j \in 1..k : i < j => Nth(K, i) < Nth(K, j)
  <2>1. K \in SUBSET DOMAIN said /\ K \in SUBSET (1..n)
    BY <1>4, <1>6
  <2>2. /\ IsSequence(Select(said, K)) /\ DOMAIN Select(said, K) = 1..Cardinality(K) /\ Cardinality(K) \in Nat
        /\ \A i \in 1..Cardinality(K) : Nth(K, i) \in K /\ Select(said, K)[i] = said[Nth(K, i)]
        /\ \A i, j \in 1..Cardinality(K) : i < j => Nth(K, i) < Nth(K, j)
    BY <2>1, <1>5, SelectionHolds
  <2>3. r = Select(said, K) /\ k = Cardinality(K)
    BY <1>6
  <2> HIDE <1>3, <1>4, <1>6
  <2> QED
    BY <2>1, <2>2, <2>3
<1>8. \A i \in 1..k : r[i].from[1] = m /\ r[i].from[2] = c /\ r[i].from[3] = Nth(K, i)
  BY <1>4, <1>7
<1>9. Ascends(r) /\ From(r, m, c)
  BY <1>7, <1>8 DEF Ascends, From, Before
<1>10. r = Parts(m, c, child)
  BY <1>3, <1>6 DEF Parts
<1> QED
  BY <1>7, <1>9, <1>10

LEMMA SayingsAscend ==
    ASSUME NEW m, NEW c, NEW child, IsSequence(child.of),
           NEW s, s = ChildSegments(m, c, child) \/ s = ChildUploads(m, c, child)
    PROVE  IsSequence(s) /\ Ascends(s) /\ From(s, m, c)
<1>1. CASE s = Parts(m, c, child)
  BY <1>1, PartsAscend
<1>2. CASE s = << >>
  BY <1>2, NoItem DEF Ascends, From
<1>3. CASE s = << [tag |-> "file", from |-> << m, c, 1 >>] >>
  <2>1. PICK x : x = [tag |-> "file", from |-> << m, c, 1 >>]
    OBVIOUS
  <2>2. IsSequence(s) /\ DOMAIN s = 1..1 /\ s[1] = x
    BY <2>1, <1>3, OneItem
  <2>3. x.from[1] = m /\ x.from[2] = c
    BY <2>1
  <2>4. Ascends(s)
    BY <2>2 DEF Ascends
  <2> QED
    BY <2>2, <2>3, <2>4 DEF From
<1> QED
  BY <1>1, <1>2, <1>3 DEF ChildSegments, ChildUploads

\* A child of the reply, by its place.
Spoken(m, c) == m \in DOMAIN Nodes /\ c \in DOMAIN Nodes[m].children

\* What the children before a place say.
Done(m, c) == { x \in Rendering : x.from[1] < m \/ (x.from[1] = m /\ x.from[2] < c) }

\* The places are numbers, and what is said at a place is from it.
LEMMA SpokenHolds ==
    ASSUME Known(answer), NEW m, NEW c, Spoken(m, c)
    PROVE  /\ m \in Nat \ {0} /\ c \in Nat \ {0} /\ IsSequence(Nodes[m].children[c].of)
           /\ \A x \in Says(m, c) : x.from[1] = m /\ x.from[2] = c
<1>1. m \in 1..Len(Nodes) /\ Len(Nodes) \in Nat /\ NodeList(Nodes[m].children)
  BY NodesAreListed DEF Spoken
<1>2. IsSequence(Nodes[m].children) /\ IsSequence(Nodes[m].children[c].of)
  BY <1>1 DEF NodeList, IsSequence, Spoken
<1>3. c \in 1..Len(Nodes[m].children) /\ Len(Nodes[m].children) \in Nat
  BY <1>2, SequencesAre DEF IsSequence, Spoken
<1>4. PICK child, s, u : /\ child = Nodes[m].children[c]
                         /\ s = ChildSegments(m, c, child) /\ u = ChildUploads(m, c, child)
  OBVIOUS
<1>5. From(s, m, c) /\ From(u, m, c)
  BY <1>2, <1>4, SayingsAscend
<1>6. Says(m, c) = Range(s) \cup Range(u)
  BY <1>4 DEF Says
<1>7. \A x \in Says(m, c) : x.from[1] = m /\ x.from[2] = c
  BY <1>5, <1>6 DEF From, Range
<1> QED
  BY <1>1, <1>2, <1>3, <1>7

\* What the reply says is what its children say.
LEMMA RenderingIs ==
    /\ \A m, c : Spoken(m, c) => Says(m, c) \subseteq Rendering
    /\ \A x \in Rendering : \E m, c : Spoken(m, c) /\ x \in Says(m, c)
<1>1. ASSUME NEW m, NEW c, Spoken(m, c), NEW x \in Says(m, c)
      PROVE  x \in Rendering
  BY <1>1 DEF Rendering, Spoken
<1>2. ASSUME NEW x \in Rendering
      PROVE  \E m, c : Spoken(m, c) /\ x \in Says(m, c)
  BY <1>2 DEF Rendering, Spoken
<1> QED
  BY <1>1, <1>2

\* Before the first child nothing has been said, behind the last one everything.
LEMMA DoneBeginsAndEnds ==
    ASSUME Known(answer)
    PROVE  /\ Done(1, 1) = {}
           /\ \A m, c : m \in Nat /\ m > Len(Nodes) => Done(m, c) = Rendering
<1>1. ASSUME NEW x \in Rendering
      PROVE  \E m, c : Spoken(m, c) /\ x.from[1] = m /\ x.from[2] = c /\ m \in Nat \ {0} /\ c \in Nat \ {0}
  BY <1>1, RenderingIs, SpokenHolds
<1>2. Done(1, 1) = {}
  <2> SUFFICES ASSUME NEW x \in Rendering, x.from[1] < 1 \/ (x.from[1] = 1 /\ x.from[2] < 1)
               PROVE  FALSE
    BY DEF Done
  <2> QED
    BY <1>1
<1>3. ASSUME NEW m \in Nat, NEW c, m > Len(Nodes)
      PROVE  Done(m, c) = Rendering
  <2> SUFFICES ASSUME NEW x \in Rendering
               PROVE  x.from[1] < m
    BY DEF Done
  <2>1. PICK k \in 1..Len(Nodes) : x.from[1] = k
    BY <1>1, NodesAreListed DEF Spoken
  <2> QED
    BY <2>1, <1>3, NodesAreListed
<1> QED
  BY <1>2, <1>3

\* A child says what it says behind what has been said.
LEMMA DoneGrows ==
    ASSUME Known(answer), NEW m, NEW c, Spoken(m, c)
    PROVE  Done(m, c + 1) = Done(m, c) \cup Says(m, c) /\ AllBefore(Done(m, c), Says(m, c))
<1>1. m \in Nat \ {0} /\ c \in Nat \ {0} /\ \A x \in Says(m, c) : x.from[1] = m /\ x.from[2] = c
  BY SpokenHolds
<1>2. ASSUME NEW x \in Rendering
      PROVE  \E k, d : x \in Says(k, d) /\ x.from[1] = k /\ x.from[2] = d /\ k \in Nat /\ d \in Nat
  BY <1>2, RenderingIs, SpokenHolds
<1>3. ASSUME NEW x \in Done(m, c + 1)
      PROVE  x \in Done(m, c) \cup Says(m, c)
  <2>1. x \in Rendering /\ (x.from[1] < m \/ (x.from[1] = m /\ x.from[2] < c + 1))
    BY <1>3 DEF Done
  <2>2. PICK k, d : x \in Says(k, d) /\ x.from[1] = k /\ x.from[2] = d /\ k \in Nat /\ d \in Nat
    BY <2>1, <1>2
  <2>3. CASE k = m /\ d = c
    BY <2>2, <2>3
  <2>4. CASE ~(k = m /\ d = c)
    <3>1. x.from[1] < m \/ (x.from[1] = m /\ x.from[2] < c)
      BY <2>1, <2>2, <2>4, <1>1
    <3> QED
      BY <2>1, <3>1 DEF Done
  <2> QED
    BY <2>3, <2>4
<1>4. ASSUME NEW x \in Done(m, c)
      PROVE  x \in Done(m, c + 1) /\ (x.from[1] < m \/ (x.from[1] = m /\ x.from[2] < c))
  <2>1. x \in Rendering /\ (x.from[1] < m \/ (x.from[1] = m /\ x.from[2] < c))
    BY <1>4 DEF Done
  <2>2. x.from[1] < m \/ (x.from[1] = m /\ x.from[2] < c + 1)
    BY <2>1, <1>1, <1>2
  <2> QED
    BY <2>1, <2>2 DEF Done
<1>5. ASSUME NEW x \in Says(m, c)
      PROVE  x \in Done(m, c + 1)
  <2>1. x \in Rendering
    BY <1>5, RenderingIs
  <2>2. x.from[1] = m /\ x.from[2] < c + 1
    BY <1>1, <1>5
  <2> QED
    BY <2>1, <2>2 DEF Done
<1>6. AllBefore(Done(m, c), Says(m, c))
  <2> SUFFICES ASSUME NEW a \in Done(m, c), NEW b \in Says(m, c)
               PROVE  Before(a.from, b.from)
    BY DEF AllBefore
  <2>1. b.from[1] = m /\ b.from[2] = c
    BY <1>1
  <2>2. a.from[1] < m \/ (a.from[1] = m /\ a.from[2] < c)
    BY <1>4
  <2> QED
    BY <2>1, <2>2 DEF Before
<1> QED
  BY <1>3, <1>4, <1>5, <1>6

\* Between the last child of a message and the next message nothing is said.
LEMMA DoneEndsMessage ==
    ASSUME Known(answer), NEW m \in Nat, NEW c \in Nat,
           m \in DOMAIN Nodes, c > Len(Nodes[m].children)
    PROVE  Done(m + 1, 1) = Done(m, c)
<1>1. ASSUME NEW x \in Rendering
      PROVE  (x.from[1] < m + 1 \/ (x.from[1] = m + 1 /\ x.from[2] < 1))
             <=> (x.from[1] < m \/ (x.from[1] = m /\ x.from[2] < c))
  <2>1. PICK k, d : Spoken(k, d) /\ x.from[1] = k /\ x.from[2] = d /\ k \in Nat \ {0} /\ d \in Nat \ {0}
    BY <1>1, RenderingIs, SpokenHolds
  <2>2. k = m => d < c
    <3> SUFFICES ASSUME k = m
                 PROVE  d < c
      OBVIOUS
    <3>1. IsSequence(Nodes[m].children)
      BY NodesAreListed DEF NodeList, IsSequence
    <3>2. d \in 1..Len(Nodes[m].children) /\ Len(Nodes[m].children) \in Nat
      BY <2>1, <3>1, SequencesAre DEF Spoken, IsSequence
    <3> QED
      BY <3>2
  <2> QED
    BY <2>1, <2>2
<1> QED
  BY <1>1 DEF Done

\* An item is of one <message>, and goes where that one goes.
Owned(item) ==
    \E m \in DOMAIN Nodes :
        /\ \A s \in DOMAIN item.says : item.says[s].from[1] = m
        /\ item.target = Nodes[m].target
        /\ item.kind = "message" => item.at = Nodes[m].at

\* Where the planner is: all that the children before its place say is in the items or
\* pending, and what is pending is of the <message> it reads.
Reached ==
    LET m == place[1]  c == place[2] IN
    /\ m \in Nat \ {0} /\ c \in Nat \ {0}
    /\ Planned(items, pending, Done(m, c))
    /\ \A s \in DOMAIN pending : pending[s].from[1] = m
    /\ pending # << >> => m \in DOMAIN Nodes /\ Nodes[m].grouped

PlanInv ==
    /\ Known(answer)
    /\ outPc \in {"off", "plan", "send"} => faults = {}
    /\ outPc = "off" => items = << >> /\ pending = << >> /\ place = << 1, 1 >>
    /\ outPc = "plan" => Reached
    /\ outPc = "send" \/ (outPc = "over" /\ faults = {}) => Planned(items, << >>, Rendering)
    /\ \A i \in DOMAIN items : Owned(items[i])

\* One item more, of what comes behind everything that has been said.
LEMMA ItemPlans ==
    ASSUME NEW plan, NEW X, Planned(plan, << >>, X), \A i \in DOMAIN plan : Owned(plan[i]),
           NEW t, IsSequence(t), Ascends(t), AllBefore(X, Range(t)),
           NEW item, item.says = t, Owned(item)
    PROVE  /\ Planned(plan \o << item >>, << >>, X \cup Range(t))
           /\ \A i \in DOMAIN (plan \o << item >>) : Owned((plan \o << item >>)[i])
<1>1. << >> \o t = t
  BY ConcatEmptySeq DEF IsSequence
<1>2. Planned(plan, << >> \o t, X \cup Range(t))
  BY RestGrows
<1>3. Planned(plan, t, X \cup Range(t))
  BY <1>1, <1>2
<1>4. Planned(plan \o << item >>, << >>, X \cup Range(t))
  BY <1>3, RestIsItem
<1>5. PICK one, c : one = << item >> /\ c = plan \o one
  OBVIOUS
<1>6. IsSequence(one) /\ DOMAIN one = 1..1 /\ one[1] = item
  BY <1>5, OneItem
<1>7. Joins(c, plan, one)
  BY <1>5, <1>6, ConcatJoins DEF Planned
<1>8. \A i \in DOMAIN c : (\E j \in DOMAIN plan : c[i] = plan[j]) \/ c[i] = item
  <2> TAKE i \in DOMAIN c
  <2>1. (\E j \in DOMAIN plan : c[i] = plan[j]) \/ (\E j \in DOMAIN one : c[i] = one[j])
    BY <1>7 DEF Joins
  <2> QED
    BY <2>1, <1>6
<1>9. \A i \in DOMAIN c : Owned(c[i])
  BY <1>8
<1> QED
  BY <1>4, <1>5, <1>9

\* flush_pending_segments turns all that is pending into a message.
LEMMA FlushPlans ==
    ASSUME NEW X, Planned(items, pending, X), \A i \in DOMAIN items : Owned(items[i]),
           NEW m, m \in DOMAIN Nodes, \A s \in DOMAIN pending : pending[s].from[1] = m
    PROVE  /\ Planned(items \o Flush(m), << >>, X)
           /\ \A i \in DOMAIN (items \o Flush(m)) : Owned((items \o Flush(m))[i])
<1>1. CASE pending = << >>
  <2>1. items \o << >> = items
    BY ConcatEmptySeq DEF Planned, IsSequence
  <2> QED
    BY <2>1, <1>1 DEF Flush
<1>2. CASE pending # << >>
  <2>1. PICK item : item = [kind |-> "message", says |-> pending, target |-> Nodes[m].target, at |-> Nodes[m].at]
    OBVIOUS
  <2>2. Flush(m) = << item >>
    BY <2>1, <1>2 DEF Flush, Message
  <2>3. /\ item.says = pending /\ item.target = Nodes[m].target /\ item.at = Nodes[m].at
    BY <2>1
  <2>4. Owned(item)
    BY <2>3 DEF Owned
  <2>5. Planned(items \o << item >>, << >>, X)
    BY <2>3, RestIsItem
  <2>6. PICK one, c : one = << item >> /\ c = items \o one
    OBVIOUS
  <2>7. IsSequence(one) /\ DOMAIN one = 1..1 /\ one[1] = item
    BY <2>6, OneItem
  <2>8. Joins(c, items, one)
    BY <2>6, <2>7, ConcatJoins DEF Planned
  <2>9. \A i \in DOMAIN c : Owned(c[i])
    <3> TAKE i \in DOMAIN c
    <3>1. (\E j \in DOMAIN items : c[i] = items[j]) \/ (\E j \in DOMAIN one : c[i] = one[j])
      BY <2>8 DEF Joins
    <3> QED
      BY <3>1, <2>4, <2>7
  <2> QED
    BY <2>2, <2>5, <2>6, <2>9
<1> QED
  BY <1>1, <1>2

\* What a reply says does not change while the answer stays.
LEMMA SameReply ==
    ASSUME answer' = answer
    PROVE  /\ Nodes' = Nodes /\ Rendering' = Rendering
           /\ \A m, c : Done(m, c)' = Done(m, c)
           /\ \A item : Owned(item)' = Owned(item)
<1>1. Nodes' = Nodes
  BY DEF Nodes
<1>2. \A m, c : Says(m, c)' = Says(m, c)
  BY <1>1 DEF Says
<1>3. Rendering' = Rendering
  BY <1>1 DEF Rendering, Says
<1>4. \A m, c : Done(m, c)' = Done(m, c)
  BY <1>3 DEF Done
<1>5. \A item : Owned(item)' = Owned(item)
  BY <1>1 DEF Owned
<1> QED
  BY <1>1, <1>3, <1>4, <1>5

\* The place the planner reads is a child of the reply.
LEMMA PlaceIsSpoken ==
    ASSUME Known(answer), place[1] \in Nat \ {0}, place[2] \in Nat \ {0}, MoreChildren
    PROVE  Spoken(place[1], place[2])
<1>1. place[1] \in DOMAIN Nodes
  BY NodesAreListed DEF MoreChildren
<1>2. IsSequence(Nodes[place[1]].children)
  BY <1>1, NodesAreListed DEF NodeList, IsSequence
<1>3. place[2] \in DOMAIN Nodes[place[1]].children
  BY <1>2, SequencesAre DEF MoreChildren, IsSequence
<1> QED
  BY <1>1, <1>3 DEF Spoken

\* The planner reaches the place << m, c >>.
LEMMA PlannerReaches ==
    ASSUME PlanInv, outPc = "plan", UNCHANGED << outPc, answer, faults >>,
           NEW m \in Nat \ {0}, NEW c \in Nat \ {0}, place' = << m, c >>,
           Planned(items', pending', Done(m, c)),
           \A s \in DOMAIN pending' : pending'[s].from[1] = m,
           pending' # << >> => m \in DOMAIN Nodes /\ Nodes[m].grouped,
           \A i \in DOMAIN items' : Owned(items'[i])
    PROVE  PlanInv'
<1>1. Nodes' = Nodes /\ Rendering' = Rendering
  BY SameReply
<1>2. place'[1] = m /\ place'[2] = c
  OBVIOUS
<1>3. Known(answer)' /\ outPc' = "plan" /\ faults' = {}
  BY DEF PlanInv, Known
<1>4. Reached'
  <2>1. Done(place[1], place[2])' = Done(m, c)
    BY <1>1, <1>2 DEF Done
  <2>2. Planned(items, pending, Done(place[1], place[2]))'
    BY <2>1
  <2> QED
    BY <2>2, <1>1, <1>2 DEF Reached
<1>5. (\A i \in DOMAIN items : Owned(items[i]))'
  BY <1>1 DEF Owned
<1> QED
  BY <1>3, <1>4, <1>5 DEF PlanInv

\* One child: what it says joins the items or what is pending.
LEMMA ChildIsPlanned ==
    ASSUME PlanInv, PlanChild
    PROVE  PlanInv'
<1>1. PICK m, c : m = place[1] /\ c = place[2]
  OBVIOUS
<1>2. outPc = "plan" /\ MoreChildren /\ place' = << m, c + 1 >> /\ UNCHANGED << outPc, answer, faults >>
  BY <1>1 DEF PlanChild
<1>3. /\ Known(answer) /\ m \in Nat \ {0} /\ c \in Nat \ {0}
      /\ Planned(items, pending, Done(m, c))
      /\ \A s \in DOMAIN pending : pending[s].from[1] = m
      /\ pending # << >> => Nodes[m].grouped
      /\ \A i \in DOMAIN items : Owned(items[i])
  BY <1>1, <1>2 DEF PlanInv, Reached
<1>4. Spoken(m, c) /\ m \in DOMAIN Nodes
  <2>1. Spoken(m, c)
    BY <1>1, <1>2, <1>3, PlaceIsSpoken
  <2> QED
    BY <2>1 DEF Spoken
<1>5. PICK child, segments, uploads :
        /\ child = Nodes[m].children[c]
        /\ segments = ChildSegments(m, c, child) /\ uploads = ChildUploads(m, c, child)
  OBVIOUS
<1>6. /\ IsSequence(segments) /\ Ascends(segments) /\ From(segments, m, c)
      /\ IsSequence(uploads) /\ Ascends(uploads) /\ From(uploads, m, c)
  <2>1. IsSequence(child.of)
    BY <1>3, <1>4, <1>5, SpokenHolds
  <2> QED
    BY <2>1, <1>5, SayingsAscend
<1>7. PICK X : X = Done(m, c)
  OBVIOUS
<1>8. /\ Done(m, c + 1) = X \cup Range(segments) \cup Range(uploads)
      /\ AllBefore(X, Range(segments)) /\ AllBefore(X, Range(uploads))
  <2>1. Done(m, c + 1) = X \cup Says(m, c) /\ AllBefore(X, Says(m, c))
    BY <1>3, <1>4, <1>7, DoneGrows
  <2>2. Says(m, c) = Range(segments) \cup Range(uploads)
    BY <1>5 DEF Says
  <2> QED
    BY <2>1, <2>2 DEF AllBefore
<1>9. Range(<< >>) = {}
  BY NoItem DEF Range
<1>10. c + 1 \in Nat \ {0}
  BY <1>3
<1>11. CASE child.tag = "file"
  <2>1. segments = << >>
    BY <1>5, <1>11 DEF ChildSegments, MediaTags
  <2>2. PICK plan : plan = items \o Flush(m)
    OBVIOUS
  <2>3. Planned(plan, << >>, X) /\ \A i \in DOMAIN plan : Owned(plan[i])
    BY <2>2, <1>3, <1>4, <1>7, FlushPlans
  <2>4. items' = plan \o (IF uploads = << >> THEN << >> ELSE Upload(uploads, m))
    BY <2>2, <1>1, <1>5, <1>11 DEF PlanChild
  <2>5. pending' = << >>
    <3>1. pending' = IF Flush(m) = << >> THEN pending ELSE << >>
      BY <1>1, <1>5, <1>11 DEF PlanChild
    <3>2. PICK item : item = [kind |-> "message", says |-> pending, target |-> Nodes[m].target, at |-> Nodes[m].at]
      OBVIOUS
    <3>3. pending # << >> => Flush(m) = << item >>
      BY <3>2 DEF Flush, Message
    <3>4. << item >> # << >>
      OBVIOUS
    <3> QED
      BY <3>1, <3>3, <3>4
  <2>6. Planned(items', << >>, Done(m, c + 1)) /\ \A i \in DOMAIN items' : Owned(items'[i])
    <3>1. CASE uploads = << >>
      <4>1. items' = plan
        <5>1. plan \o << >> = plan
          BY <2>3, ConcatEmptySeq DEF Planned, IsSequence
        <5> QED
          BY <5>1, <2>4, <3>1
      <4>2. Done(m, c + 1) = X
        BY <2>1, <3>1, <1>8, <1>9
      <4> QED
        BY <4>1, <4>2, <2>3
    <3>2. CASE uploads # << >>
      <4>1. PICK item : item = [kind |-> "upload", says |-> uploads, target |-> Nodes[m].target, at |-> FALSE]
        OBVIOUS
      <4>2. items' = plan \o << item >>
        BY <2>4, <3>2, <4>1 DEF Upload
      <4>3. item.says = uploads /\ Owned(item)
        <5>1. item.kind = "upload" /\ item.says = uploads /\ item.target = Nodes[m].target
          BY <4>1
        <5> QED
          BY <5>1, <1>4, <1>6 DEF Owned, From
      <4>4. /\ Planned(plan \o << item >>, << >>, X \cup Range(uploads))
            /\ \A i \in DOMAIN (plan \o << item >>) : Owned((plan \o << item >>)[i])
        BY <4>3, <2>3, <1>6, <1>8, ItemPlans
      <4>5. Done(m, c + 1) = X \cup Range(uploads)
        BY <2>1, <1>8, <1>9
      <4> QED
        BY <4>2, <4>4, <4>5
    <3> QED
      BY <3>1, <3>2
  <2> QED
    BY <2>5, <2>6, <1>2, <1>3, <1>10, NoItem, PlannerReaches
<1>12. CASE child.tag # "file" /\ Nodes[m].grouped
  <2>1. uploads = << >>
    BY <1>5, <1>12 DEF ChildUploads
  <2>2. pending' = pending \o segments /\ UNCHANGED items
    BY <1>1, <1>5, <1>12 DEF PlanChild
  <2>3. Planned(items', pending', Done(m, c + 1))
    <3>1. Planned(items, pending \o segments, X \cup Range(segments))
      BY <1>3, <1>6, <1>7, <1>8, RestGrows
    <3>2. Done(m, c + 1) = X \cup Range(segments)
      BY <2>1, <1>8, <1>9
    <3> QED
      BY <3>1, <3>2, <2>2
  <2>4. \A s \in DOMAIN pending' : pending'[s].from[1] = m
    <3>1. PICK r : r = pending \o segments
      OBVIOUS
    <3>2. Joins(r, pending, segments)
      BY <3>1, <1>3, <1>6, ConcatJoins DEF Planned
    <3>3. \A s \in DOMAIN r : r[s].from[1] = m
      BY <3>2, <1>3, <1>6 DEF Joins, From
    <3> QED
      BY <3>1, <3>3, <2>2
  <2> QED
    BY <2>2, <2>3, <2>4, <1>2, <1>3, <1>4, <1>10, <1>12, PlannerReaches
<1>13. CASE child.tag # "file" /\ ~Nodes[m].grouped
  <2>1. uploads = << >>
    BY <1>5, <1>13 DEF ChildUploads
  <2>2. pending = << >> /\ pending' = << >>
        /\ items' = IF segments = << >> THEN items ELSE items \o Message(segments, m)
    BY <1>1, <1>3, <1>5, <1>13 DEF PlanChild
  <2>3. Done(m, c + 1) = X \cup Range(segments)
    BY <2>1, <1>8, <1>9
  <2>4. Planned(items', << >>, Done(m, c + 1)) /\ \A i \in DOMAIN items' : Owned(items'[i])
    <3>1. CASE segments = << >>
      <4>1. Done(m, c + 1) = X /\ items' = items
        BY <2>2, <2>3, <3>1, <1>9
      <4> QED
        BY <4>1, <2>2, <1>3, <1>7
    <3>2. CASE segments # << >>
      <4>1. PICK item : item = [kind |-> "message", says |-> segments, target |-> Nodes[m].target, at |-> Nodes[m].at]
        OBVIOUS
      <4>2. items' = items \o << item >>
        BY <2>2, <3>2, <4>1 DEF Message
      <4>3. item.says = segments /\ Owned(item)
        <5>1. item.says = segments /\ item.target = Nodes[m].target /\ item.at = Nodes[m].at
          BY <4>1
        <5> QED
          BY <5>1, <1>4, <1>6 DEF Owned, From
      <4>4. /\ Planned(items \o << item >>, << >>, X \cup Range(segments))
            /\ \A i \in DOMAIN (items \o << item >>) : Owned((items \o << item >>)[i])
        BY <4>3, <2>2, <1>3, <1>6, <1>7, <1>8, ItemPlans
      <4> QED
        BY <4>2, <4>4, <2>3
    <3> QED
      BY <3>1, <3>2
  <2> QED
    BY <2>2, <2>4, <1>2, <1>3, <1>10, NoItem, PlannerReaches
<1> QED
  BY <1>11, <1>12, <1>13

\* The end of a message: what is pending of it is sent before the next one.
LEMMA MessageEnds ==
    ASSUME PlanInv, EndMessage
    PROVE  PlanInv'
<1>1. PICK m, c : m = place[1] /\ c = place[2]
  OBVIOUS
<1>2. /\ outPc = "plan" /\ m <= Len(Nodes) /\ ~MoreChildren /\ items' = items \o Flush(m) /\ pending' = << >>
      /\ place' = << m + 1, 1 >> /\ UNCHANGED << outPc, answer, faults >>
  BY <1>1 DEF EndMessage
<1>3. /\ Known(answer) /\ m \in Nat \ {0} /\ c \in Nat \ {0}
      /\ Planned(items, pending, Done(m, c))
      /\ \A s \in DOMAIN pending : pending[s].from[1] = m
      /\ \A i \in DOMAIN items : Owned(items[i])
  BY <1>1, <1>2 DEF PlanInv, Reached
<1>4. m \in DOMAIN Nodes
  BY <1>2, <1>3, NodesAreListed
<1>5. c > Len(Nodes[m].children)
  <2>1. Len(Nodes[m].children) \in Nat
    BY <1>3, <1>4, NodesAreListed, SequencesAre DEF NodeList
  <2> QED
    BY <2>1, <1>1, <1>2, <1>3 DEF MoreChildren
<1>6. Done(m + 1, 1) = Done(m, c)
  BY <1>3, <1>4, <1>5, DoneEndsMessage
<1>7. Planned(items', << >>, Done(m + 1, 1)) /\ \A i \in DOMAIN items' : Owned(items'[i])
  BY <1>2, <1>3, <1>4, <1>6, FlushPlans
<1>8. m + 1 \in Nat \ {0} /\ 1 \in Nat \ {0}
  BY <1>3
<1> QED
  BY <1>2, <1>7, <1>8, NoItem, PlannerReaches

\* Nothing is planned of a reply that has not been read.
LEMMA NothingIsPlanned == Planned(<< >>, << >>, {})
<1>1. Range(<< >>) = {}
  BY NoItem DEF Range
<1> QED
  BY <1>1, NoItem DEF Planned, Ascends, AllBefore

LEMMA NothingIsDone == Known(answer) => Done(1, 1) = {}
BY DoneBeginsAndEnds

\* The same of the answer that arrives with a step.
LEMMA NothingIsDoneNext == (Known(answer) => Done(1, 1) = {})'
BY NothingIsDone, PTL

LEMMA NothingAnswered == ASSUME OutInit PROVE PlanInv
BY NoItem DEF OutInit, PlanInv, Known

\* The answer arrives: the planner reads it from its first child, or the hub cannot
\* parse it.
LEMMA AnswerBegins ==
    ASSUME PlanInv, NEW a \in Answers \cup {FallbackAnswer}, BeginReply(a)
    PROVE  PlanInv'
<1>1. /\ outPc = "off" /\ answer' = a /\ UNCHANGED << place, pending, items >>
      /\ \/ outPc' = "plan" /\ faults' = {}
         \/ outPc' = "over" /\ faults' = {"unparsable"}
  BY DEF BeginReply
<1>2. items' = << >> /\ pending' = << >> /\ place'[1] = 1 /\ place'[2] = 1
  BY <1>1 DEF PlanInv
<1>3. Known(answer)'
  BY <1>1 DEF Known
<1>4. Done(1, 1)' = {}
  BY <1>3, NothingIsDoneNext
<1>5. Done(place[1], place[2])' = Done(1, 1)'
  BY <1>2 DEF Done
<1>6. Planned(items, pending, Done(place[1], place[2]))'
  BY <1>2, <1>4, <1>5, NothingIsPlanned
<1>7. Reached'
  BY <1>2, <1>6, NoItem DEF Reached
<1>8. (\A i \in DOMAIN items : Owned(items[i]))'
  BY <1>2, NoItem
<1> QED
  BY <1>1, <1>3, <1>7, <1>8 DEF PlanInv

\* The plan is what it was while it is sent, and when no more of it is.
LEMMA PlanStands ==
    ASSUME PlanInv, UNCHANGED << answer, items >>,
           outPc' \in {"send", "over"},
           outPc' = "send" => faults' = {},
           faults' = {} => Planned(items, << >>, Rendering)
    PROVE  PlanInv'
<1>1. Nodes' = Nodes /\ Rendering' = Rendering
  BY SameReply
<1>2. Known(answer)'
  BY DEF PlanInv, Known
<1>3. (\A i \in DOMAIN items : Owned(items[i]))'
  BY <1>1 DEF PlanInv, Owned
<1> QED
  BY <1>1, <1>2, <1>3 DEF PlanInv

LEMMA PlanUntouched ==
    ASSUME PlanInv, UNCHANGED << outPc, answer, place, pending, items, faults >>
    PROVE  PlanInv'
<1>1. Nodes' = Nodes /\ Rendering' = Rendering
  BY SameReply
<1>2. Known(answer)'
  BY DEF PlanInv, Known
<1>3. (\A i \in DOMAIN items : Owned(items[i]))'
  BY <1>1 DEF PlanInv, Owned
<1>4. outPc = "plan" => Reached'
  <2>1. Done(place[1], place[2])' = Done(place[1], place[2])
    BY <1>1 DEF Done
  <2>2. outPc = "plan" => Planned(items, pending, Done(place[1], place[2]))'
    BY <2>1 DEF PlanInv, Reached
  <2> QED
    BY <2>2, <1>1 DEF PlanInv, Reached
<1> QED
  BY <1>1, <1>2, <1>3, <1>4 DEF PlanInv

\* Behind the last message nothing is pending, and all has been said.
LEMMA PlanEnds ==
    ASSUME PlanInv, BeginSending
    PROVE  PlanInv'
<1>1. outPc = "plan" /\ outPc' = "send" /\ place[1] > Len(Nodes) /\ UNCHANGED << answer, items, faults >>
  BY DEF BeginSending
<1>2. PICK m, c : m = place[1] /\ c = place[2]
  OBVIOUS
<1>3. /\ Known(answer) /\ faults = {} /\ m \in Nat \ {0}
      /\ Planned(items, pending, Done(m, c))
      /\ pending # << >> => m \in DOMAIN Nodes
  BY <1>1, <1>2 DEF PlanInv, Reached
<1>4. Len(Nodes) \in Nat /\ DOMAIN Nodes = 1..Len(Nodes)
  BY <1>3, NodesAreListed
<1>5. pending = << >>
  BY <1>1, <1>2, <1>3, <1>4
<1>6. Done(m, c) = Rendering
  BY <1>1, <1>2, <1>3, DoneBeginsAndEnds
<1>7. Planned(items, << >>, Rendering)
  BY <1>3, <1>5, <1>6
<1> QED
  BY <1>1, <1>3, <1>7, PlanStands

\* Every step of the reply keeps its plan.
LEMMA ReplyKeepsPlan ==
    ASSUME PlanInv, OutStep
    PROVE  PlanInv'
<1>1. CASE PlanChild
  BY <1>1, ChildIsPlanned
<1>2. CASE EndMessage
  BY <1>2, MessageEnds
<1>3. CASE BeginSending
  BY <1>3, PlanEnds
<1>4. CASE FetchFails
  <2>1. outPc' = "over" /\ faults' # {} /\ UNCHANGED << answer, items >>
    BY <1>4 DEF FetchFails, GivesUp
  <2> QED
    BY <2>1, PlanStands
<1>5. CASE SendItem \/ ItemRefused \/ ReplySent
  <2>1. outPc = "send" /\ outPc' \in {"send", "over"} /\ UNCHANGED << answer, items, faults >>
    BY <1>5 DEF SendItem, ItemRefused, ReplySent
  <2>2. faults = {} /\ Planned(items, << >>, Rendering)
    BY <2>1 DEF PlanInv
  <2> QED
    BY <2>1, <2>2, PlanStands
<1>6. CASE ItemFails
  <2>1. outPc' = "over" /\ faults' # {} /\ UNCHANGED << answer, items >>
    BY <1>6 DEF ItemFails, StopsSending
  <2> QED
    BY <2>1, PlanStands
<1> QED
  BY <1>1, <1>2, <1>3, <1>4, <1>5, <1>6 DEF OutStep

LEMMA PlanInvStep == ASSUME PlanInv, [Next]_allVars PROVE PlanInv'
<1>1. CASE AgentAnswers
  <2>1. PICK a \in Answers \cup {FallbackAnswer} : BeginReply(a)
    BY <1>1 DEF AgentAnswers
  <2> QED
    BY <2>1, AnswerBegins
<1>2. CASE HubReplies
  BY <1>2, ReplyKeepsPlan DEF HubReplies
<1>3. CASE \/ HubListens \/ AgentRuns \/ AgentWorks \/ CallsTool \/ ToolWorks \/ ToolReturns \/ RunReturns
           \/ Shutdown \/ NewMessage \/ LangfuseAnswers \/ Stopped \/ UNCHANGED allVars
  <2>1. UNCHANGED << outPc, answer, place, pending, items, faults >>
    BY <1>3
    DEF HubListens, AgentRuns, AgentWorks, CallsTool, ToolWorks, ToolReturns, RunReturns, Shutdown,
        NewMessage, LangfuseAnswers, Stopped, allVars, outVars
  <2> QED
    BY <2>1, PlanUntouched
<1> QED
  BY <1>1, <1>2, <1>3 DEF Next, Progress

\* What is planned in this way is the rendering of the reply.
LEMMA PlannedRenders ==
    ASSUME NEW plan, Planned(plan, << >>, Rendering),
           NEW says, DOMAIN says = DOMAIN plan, \A i \in DOMAIN plan : says[i] = plan[i].says
    PROVE  Renders(says)
<1>1. \A x : x \notin Range(<< >>)
  BY NoItem DEF Range
<1>2. ASSUME NEW x
      PROVE  (\E i \in DOMAIN says : x \in Range(says[i])) <=> x \in Rendering
  BY <1>1 DEF Planned
<1>3. ASSUME NEW x
      PROVE  x \in UNION { Range(says[i]) : i \in DOMAIN says } <=> \E i \in DOMAIN says : x \in Range(says[i])
  OBVIOUS
<1>4. UNION { Range(says[i]) : i \in DOMAIN says } = Rendering
  <2>1. \A x : x \in UNION { Range(says[i]) : i \in DOMAIN says } <=> x \in Rendering
    BY <1>2, <1>3
  <2> QED
    BY <2>1
<1>5. ASSUME NEW i \in DOMAIN says, NEW j \in DOMAIN says, NEW s \in DOMAIN says[i], NEW t \in DOMAIN says[j],
             i < j \/ (i = j /\ s < t)
      PROVE  Before(says[i][s].from, says[j][t].from)
  <2>1. CASE i < j
    <3>1. says[i][s] \in Range(plan[i].says) /\ says[j][t] \in Range(plan[j].says)
      BY DEF Range
    <3> QED
      BY <2>1, <3>1 DEF Planned, AllBefore
  <2>2. CASE i = j /\ s < t
    BY <2>2 DEF Planned, Ascends
  <2> QED
    BY <1>5, <2>1, <2>2
<1> QED
  BY <1>4, <1>5 DEF Renders

\* Whatever the answer, and however texts, media and files alternate in it, what is sent
\* is what the reply says: each segment and file once, in document order, to the
\* target of its <message>.
THEOREM PlansRender == Spec => [](PlanInv /\ PlanIsRendering)
<1>1. Init => PlanInv
  BY NothingAnswered DEF Init
<1>2. PlanInv /\ [Next]_allVars => PlanInv'
  BY PlanInvStep
<1>3. PlanInv => PlanIsRendering
  <2> SUFFICES ASSUME PlanInv, outPc = "send"
               PROVE  /\ Renders([i \in DOMAIN items |-> items[i].says])
                      /\ \A i \in DOMAIN items : \E m \in DOMAIN Nodes :
                           /\ \A s \in DOMAIN items[i].says : items[i].says[s].from[1] = m
                           /\ items[i].target = Nodes[m].target
                           /\ items[i].kind = "message" => items[i].at = Nodes[m].at
    BY DEF PlanIsRendering
  <2>1. PICK says : says = [i \in DOMAIN items |-> items[i].says]
    OBVIOUS
  <2>2. DOMAIN says = DOMAIN items /\ \A i \in DOMAIN items : says[i] = items[i].says
    BY <2>1
  <2>3. Renders(says)
    BY <2>2, PlannedRenders DEF PlanInv
  <2> QED
    BY <2>1, <2>3 DEF PlanInv, Owned
<1> QED
  BY <1>1, <1>2, <1>3, PTL DEF Spec

-----------------------------------------------------------------------------
(* What is delivered *)

\* While nothing is refused and nothing fails, the items shown are those sent; the reply
\* is over when all have been.
SentAll ==
    /\ faults = {} /\ refused = {} => Len(shown) = next - 1 /\ \A i \in DOMAIN shown : shown[i].item = i
    /\ outPc = "over" /\ faults = {} => next = Len(items) + 1

LEMMA NothingSent == ASSUME OutInit PROVE SentAll
BY NoItem DEF OutInit, SentAll

LEMMA SendingUntouched ==
    ASSUME SentAll, UNCHANGED << outPc, items, next, shown, refused, faults >>
    PROVE  SentAll'
BY DEF SentAll

\* The planner sends nothing; a reply that cannot be parsed or fetched has a fault.
LEMMA PlanningSendsNothing ==
    ASSUME OutInv, SentAll,
           \/ PlanChild \/ EndMessage \/ BeginSending \/ FetchFails
           \/ \E a \in Answers \cup {FallbackAnswer} : BeginReply(a)
    PROVE  SentAll'
<1>1. outPc \in {"off", "plan"} /\ UNCHANGED << next, shown, refused >> /\ (outPc' = "over" => faults' # {})
  BY DEF PlanChild, EndMessage, BeginSending, FetchFails, GivesUp, BeginReply
<1>2. shown = << >> /\ next = 1
  BY <1>1 DEF OutInv, SentInv
<1> QED
  BY <1>1, <1>2, NoItem DEF SentAll

\* The sender's steps.
LEMMA SenderSendsAll ==
    ASSUME OutInv, SentAll, SendItem \/ ItemRefused \/ ItemFails \/ ReplySent
    PROVE  SentAll'
<1>1. /\ Len(items) \in Nat /\ next \in 1..Len(items) + 1 /\ IsSequence(shown)
  BY SequencesAre DEF OutInv, OutTypeOK, SentInv, Sendable, IsSequence
<1>2. CASE SendItem
  <2>1. outPc = "send" /\ UNCHANGED << outPc, items, refused, faults >> /\ next' = next + 1
    BY <1>2 DEF SendItem
  <2>2. PICK x : x = [item |-> next, at |-> IF Prefixed(items[next]) THEN items[next].target ELSE NoTarget]
    OBVIOUS
  <2>3. PICK n : n = Len(shown)
    OBVIOUS
  <2>4. shown' = Append(shown, x) /\ x.item = next
    BY <1>2, <2>2 DEF SendItem, Shows
  <2>5. /\ n \in Nat /\ DOMAIN shown = 1..n /\ DOMAIN shown' = 1..n + 1 /\ Len(shown') = n + 1
        /\ shown'[n + 1] = x /\ \A i \in DOMAIN shown : shown'[i] = shown[i]
    BY <1>1, <2>3, <2>4, AppendGrows
  <2>6. ASSUME faults = {}, refused = {}, NEW i \in DOMAIN shown'
        PROVE  shown'[i].item = i
    <3>1. n = next - 1 /\ \A j \in 1..n : shown[j].item = j
      BY <2>3, <2>5, <2>6 DEF SentAll
    <3>2. CASE i \in 1..n
      BY <3>1, <3>2, <2>5
    <3>3. CASE i = n + 1
      BY <3>1, <3>3, <2>4, <2>5, <1>1
    <3> QED
      BY <3>2, <3>3, <2>5, <2>6
  <2>7. faults = {} /\ refused = {} => Len(shown') = next' - 1
    BY <1>1, <2>1, <2>3, <2>5 DEF SentAll
  <2> QED
    BY <2>1, <2>6, <2>7 DEF SentAll
<1>3. CASE ItemRefused
  <2>1. refused' # {} /\ outPc' = "send"
    BY <1>3 DEF ItemRefused
  <2> QED
    BY <2>1 DEF SentAll
<1>4. CASE ItemFails
  <2>1. faults' # {}
    BY <1>4 DEF ItemFails
  <2> QED
    BY <2>1 DEF SentAll
<1>5. CASE ReplySent
  <2>1. next > Len(items) /\ UNCHANGED << items, next, shown, refused, faults >>
    BY <1>5 DEF ReplySent
  <2>2. next = Len(items) + 1
    BY <1>1, <2>1
  <2> QED
    BY <2>1, <2>2 DEF SentAll
<1> QED
  BY <1>2, <1>3, <1>4, <1>5

LEMMA SentAllStep == ASSUME OutInv, SentAll, [Next]_allVars PROVE SentAll'
<1>1. CASE AgentAnswers
  <2>1. \E a \in Answers \cup {FallbackAnswer} : BeginReply(a)
    BY <1>1 DEF AgentAnswers
  <2> QED
    BY <2>1, PlanningSendsNothing
<1>2. CASE HubReplies
  BY <1>2, PlanningSendsNothing, SenderSendsAll DEF HubReplies, OutStep
<1>3. CASE \/ HubListens \/ AgentRuns \/ AgentWorks \/ CallsTool \/ ToolWorks \/ ToolReturns \/ RunReturns
           \/ Shutdown \/ NewMessage \/ LangfuseAnswers \/ Stopped \/ UNCHANGED allVars
  <2>1. UNCHANGED << outPc, items, next, shown, refused, faults >>
    BY <1>3
    DEF HubListens, AgentRuns, AgentWorks, CallsTool, ToolWorks, ToolReturns, RunReturns, Shutdown,
        NewMessage, LangfuseAnswers, Stopped, allVars, outVars
  <2> QED
    BY <2>1, SendingUntouched
<1> QED
  BY <1>1, <1>2, <1>3 DEF Next, Progress

\* Text that is not a <reply> is a reply that says it.
LEMMA WordsAreSaid ==
    ASSUME answer.form \in {"foreign", "broken"}
    PROVE  \E x : x \in Rendering
<1>1. PICK child, root : child = Node("text", << "words" >>) /\ root = << child >>
  OBVIOUS
<1>2. child.tag = "text" /\ child.of = << "words" >>
  BY <1>1 DEF Node
<1>3. IsSequence(root) /\ DOMAIN root = 1..1 /\ root[1] = child
  BY <1>1, OneItem
<1>4. Reply(answer) = root
  BY <1>1 DEF Reply, TextReply
<1>5. { i \in DOMAIN root : root[i].tag = "message" } = {}
  BY <1>2, <1>3
<1>6. PICK x : x = [children |-> root, target |-> NoTarget, at |-> FALSE, grouped |-> FALSE]
  OBVIOUS
<1>7. Nodes = << x >>
  <2>1. Select(root, { i \in DOMAIN root : root[i].tag = "message" }) = << >>
    BY <1>5, NoSelection
  <2> QED
    BY <2>1, <1>4, <1>6 DEF Nodes, MessageNodes
<1>8. DOMAIN << x >> = 1..1 /\ << x >>[1] = x /\ x.children = root
  BY <1>6, OneItem
<1>9. Spoken(1, 1) /\ Nodes[1].children[1] = child
  BY <1>3, <1>7, <1>8 DEF Spoken
<1>10. PICK said, K, r :
         /\ said = [p \in DOMAIN child.of |->
                      [tag |-> IF child.of[p] = "known" THEN "face"
                               ELSE IF child.of[p] = "unknown" THEN "unknown" ELSE child.tag,
                       from |-> << 1, 1, p >>]]
         /\ K = { p \in DOMAIN said : said[p].tag # "unknown" }
         /\ r = Select(said, K)
  OBVIOUS
<1>11. DOMAIN child.of = 1..1 /\ child.of[1] = "words"
  BY <1>2, OneItem
<1>12. /\ DOMAIN said = 1..1 /\ said = [p \in 1..1 |-> said[p]] /\ said[1].tag = "text"
  BY <1>2, <1>10, <1>11
<1>13. K = {1}
  BY <1>10, <1>12
<1>14. IsSequence(said)
  <2>1. 1 \in Nat
    OBVIOUS
  <2> QED
    BY <2>1, <1>12, ListedIsSequence
<1>15. DOMAIN r = 1..1
  <2>1. K \in SUBSET DOMAIN said
    BY <1>12, <1>13
  <2>2. Cardinality(K) = 1
    BY <1>13, FS_Singleton
  <2>3. DOMAIN Select(said, K) = 1..Cardinality(K)
    BY <2>1, <1>14, SelectionHolds
  <2> QED
    BY <2>2, <2>3, <1>10
<1>16. r = ChildSegments(1, 1, child)
  BY <1>2, <1>10 DEF ChildSegments, Parts
<1>17. r[1] \in Says(1, 1)
  BY <1>9, <1>15, <1>16 DEF Says, Range
<1> QED
  BY <1>9, <1>17, RenderingIs

\* Without a fault all that the reply says is shown.
LEMMA AllIsDelivered ==
    ASSUME OutInv, PlanInv, SentAll
    PROVE  DeliveredUnlessFault
<1> SUFFICES ASSUME outPc = "over", faults = {}, refused = {}
             PROVE  /\ Len(shown) = Len(items)
                    /\ answer.form \in {"foreign", "broken"} => shown # << >>
                    /\ Renders([i \in DOMAIN shown |-> items[shown[i].item].says])
  BY DEF DeliveredUnlessFault
<1>1. Planned(items, << >>, Rendering)
  BY DEF PlanInv
<1>2. PICK n : n = Len(items)
  OBVIOUS
<1>3. n \in Nat /\ DOMAIN items = 1..n
  BY <1>1, <1>2, SequencesAre DEF Planned, IsSequence
<1>4. Len(shown) = n /\ DOMAIN shown = 1..n /\ \A i \in 1..n : shown[i].item = i
  <2>1. next = n + 1 /\ Len(shown) = next - 1 /\ \A i \in DOMAIN shown : shown[i].item = i
    BY <1>2 DEF SentAll
  <2>2. DOMAIN shown = 1..Len(shown)
    BY SequencesAre DEF OutInv, SentInv, IsSequence
  <2> QED
    BY <2>1, <2>2, <1>3
<1>5. ASSUME answer.form \in {"foreign", "broken"}
      PROVE  shown # << >>
  <2>1. PICK x : x \in Rendering
    BY <1>5, WordsAreSaid
  <2>2. \A y : y \notin Range(<< >>)
    BY NoItem DEF Range
  <2>3. \E i \in DOMAIN items : TRUE
    BY <1>1, <2>1, <2>2 DEF Planned
  <2>4. n # 0
    BY <2>3, <1>3
  <2> QED
    BY <2>4, <1>4, NoItem
<1>6. PICK says : says = [i \in DOMAIN shown |-> items[shown[i].item].says]
  OBVIOUS
<1>7. DOMAIN says = DOMAIN items /\ \A i \in DOMAIN items : says[i] = items[i].says
  BY <1>3, <1>4, <1>6
<1>8. Renders(says)
  BY <1>1, <1>7, PlannedRenders
<1> QED
  BY <1>2, <1>4, <1>5, <1>6, <1>8

\* Whatever the model answers, QQ shows all that the reply says, in its order, unless the
\* reply cannot be parsed, a media cannot be fetched, or an action fails or is refused.
THEOREM RepliesAreDelivered == Spec => [](SentAll /\ DeliveredUnlessFault)
<1>1. Init => InInv /\ OutInv /\ PlanInv /\ SentAll
  BY InInvInit, OutInvInit, NothingAnswered, NothingSent DEF Init
<1>2. InInv /\ OutInv /\ PlanInv /\ SentAll /\ [Next]_allVars => InInv' /\ OutInv' /\ PlanInv' /\ SentAll'
  BY InInvStep, OutInvStep, PlanInvStep, SentAllStep
<1>3. OutInv /\ PlanInv /\ SentAll => DeliveredUnlessFault
  BY AllIsDelivered
<1> QED
  BY <1>1, <1>2, <1>3, PTL DEF Spec

-----------------------------------------------------------------------------
(* The exchange *)

\* The types of the four parts.
THEOREM ExchangeIsTyped == Spec => []TypeOK
<1>1. InInv /\ TraceInv /\ ToolInv /\ OutInv => TypeOK
  BY DEF InInv, TraceInv, ToolInv, OutInv, TypeOK
<1> QED
  BY <1>1, HeardAreAllowed, TracesNest, RequestsAreValid, RepliesAreShownInOrder, PTL

=============================================================================
