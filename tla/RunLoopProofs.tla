-------------------------- MODULE RunLoopProofs ----------------------------
(***************************************************************************)
(* Theorems about the agent loop, for any number of runs and any limits.   *)
(* The first part is about the operations on conversation histories: what  *)
(* the cuts return, for histories of any length.                           *)
(***************************************************************************)
EXTENDS RunLoop, SequenceTheorems, WellFoundedInduction, TLAPS

\* The messages the Runner builds are messages.
LEMMA MessageTypes ==
    /\ \A kind \in UserKinds, r \in Runs : UserTurn(kind, r) \in Message
    /\ \A r \in Runs, T \in SUBSET Nat : SteerTurns(r, T) \in Message
    /\ \A r \in Runs, s, n \in Nat : AssistantTurn(r, s, n) \in Message
    /\ \A r \in Runs, s, n \in Nat : ToolResult(r, s, n) \in Message
  <1>1. {} \in SUBSET Nat
    OBVIOUS
  <1>2. \A kind \in UserKinds, r \in Runs : UserTurn(kind, r) \in Message
    BY <1>1 DEF UserTurn, Message
  <1>3. \A r \in Runs, T \in SUBSET Nat : SteerTurns(r, T) \in Message
    <2> SUFFICES ASSUME NEW r \in Runs, NEW T \in SUBSET Nat PROVE SteerTurns(r, T) \in Message
      OBVIOUS
    <2>1. "steer" \in UserKinds \cup {"assistant", "result"}
      BY DEF UserKinds
    <2> QED BY <2>1 DEF SteerTurns, Message
  <1>4. \A r \in Runs, s, n \in Nat : AssistantTurn(r, s, n) \in Message
    BY <1>1 DEF AssistantTurn, Message
  <1>5. \A r \in Runs, s, n \in Nat : ToolResult(r, s, n) \in Message
    BY <1>1 DEF ToolResult, Message
  <1> QED BY <1>2, <1>3, <1>4, <1>5

\* The results appended for the first k calls of a turn.
LEMMA ToolResultsType ==
    ASSUME NEW r \in Runs, NEW s \in Nat, NEW k \in Nat
    PROVE  /\ ToolResults(r, s, k) \in Seq(Message)
           /\ Len(ToolResults(r, s, k)) = k
           /\ \A i \in 1..k : ToolResults(r, s, k)[i] = ToolResult(r, s, i)
  <1>1. \A i \in 1..k : ToolResult(r, s, i) \in Message
    BY MessageTypes
  <1>2. ToolResults(r, s, k) \in [1..k -> Message]
    BY <1>1 DEF ToolResults
  <1>3. ToolResults(r, s, k) \in Seq(Message)
    BY <1>2, SeqDef
  <1>4. DOMAIN ToolResults(r, s, k) = 1..k
    BY DEF ToolResults
  <1>5. Len(ToolResults(r, s, k)) = k
    BY <1>3, <1>4, LenProperties
  <1> QED BY <1>3, <1>5 DEF ToolResults

\* A non-empty set of positions has a latest one.
LEMMA LatestIsGreatest ==
    ASSUME NEW n \in Nat, NEW S, S \subseteq 1..n, S # {}
    PROVE  Latest(S) \in S /\ \A y \in S : y <= Latest(S)
  <1> DEFINE R == {ss \in Nat \X Nat : ss[1] < ss[2]}
             T == {n - x : x \in S}
  <1>1. IsWellFoundedOn(R, Nat)
    BY NatLessThanWellFounded DEF OpToRel
  <1>2. T \subseteq Nat /\ T # {}
    <2>1. \A x \in S : n - x \in Nat
      OBVIOUS
    <2>2. PICK x : x \in S
      BY Zenon
    <2>3. n - x \in T
      BY <2>2, Zenon
    <2> QED BY <2>1, <2>3, Zenon
  <1> HIDE DEF R
  <1>3. PICK m \in T : \A y \in T : ~(<<y, m>> \in R)
    <2> HIDE DEF T
    <2> QED BY <1>1, <1>2, WFMin
  <1>4. \A y \in T : ~(y < m)
    BY <1>2, <1>3 DEF R
  <1>5. PICK x \in S : m = n - x
    BY <1>3
  <1>6. \A y \in S : y <= x
    <2> SUFFICES ASSUME NEW y \in S PROVE y <= x
      OBVIOUS
    <2>1. n - y \in T /\ ~(n - y < m)
      BY <1>4
    <2> QED BY <1>5, <2>1
  <1> QED BY <1>5, <1>6 DEF Latest

\* The position trimDanglingToolTurn looks at is an assistant turn of the history.
LEMMA LastAssistantPosition ==
    ASSUME NEW h \in Seq(Message)
    PROVE  /\ LastAssistant(h) \in 0..Len(h)
           /\ LastAssistant(h) # 0 => h[LastAssistant(h)].kind = "assistant"
           /\ \A i \in 1..Len(h) : h[i].kind = "assistant" => i <= LastAssistant(h)
  <1> DEFINE S == {i \in 1..Len(h) : h[i].kind = "assistant"}
  <1>1. Len(h) \in Nat /\ S \subseteq 1..Len(h)
    BY LenProperties
  <1>2. LastAssistant(h) = Latest(S)
    BY DEF LastAssistant
  <1>3. CASE S = {}
    <2>1. Latest(S) = 0
      BY <1>3 DEF Latest
    <2> QED BY <1>1, <1>2, <1>3, <2>1
  <1>4. CASE S # {}
    <2>1. Latest(S) \in S /\ \A y \in S : y <= Latest(S)
      <3> HIDE DEF S
      <3> QED BY <1>1, <1>4, LatestIsGreatest
    <2> QED BY <1>1, <1>2, <2>1
  <1> QED BY <1>3, <1>4

\* The trimmed seed of a continued conversation is a prefix of the seed.
LEMMA TrimIsPrefix ==
    ASSUME NEW h \in Seq(Message)
    PROVE  /\ TrimDanglingToolTurn(h) \in Seq(Message)
           /\ Len(TrimDanglingToolTurn(h)) <= Len(h)
           /\ \A i \in 1..Len(TrimDanglingToolTurn(h)) : TrimDanglingToolTurn(h)[i] = h[i]
  <1> DEFINE last == LastAssistant(h)
  <1>1. Len(h) \in Nat /\ last \in 0..Len(h) /\ \A i \in 1..Len(h) : h[i] \in Message
    BY LenProperties, LastAssistantPosition, ElementOfSeq
  <1>2. CASE TrimDanglingToolTurn(h) = h
    BY <1>1, <1>2
  <1>3. CASE TrimDanglingToolTurn(h) = SubSeq(h, 1, last - 1) /\ last # 0
    <2> HIDE DEF last
    <2>1. \A i \in 1..(last - 1) : h[i] \in Message
      BY <1>1
    <2>2. /\ SubSeq(h, 1, last - 1) \in Seq(Message)
          /\ Len(SubSeq(h, 1, last - 1)) = IF 1 <= last - 1 THEN (last - 1) - 1 + 1 ELSE 0
          /\ \A i \in 1..((last - 1) - 1 + 1) : SubSeq(h, 1, last - 1)[i] = h[1 + i - 1]
      BY <1>1, <2>1, SubSeqProperties
    <2> QED BY <1>1, <1>3, <2>2
  <1> QED BY <1>2, <1>3 DEF TrimDanglingToolTurn

\* A history with a cut point is cut at an assistant turn behind the task.
LEMMA SummaryCutPosition ==
    ASSUME NEW h \in Seq(Message), SummaryCut(h) # 0
    PROVE  SummaryCut(h) \in CutPoints(h) /\ SummaryCut(h) \in 3..Len(h)
  <1>1. Len(h) \in Nat /\ CutPoints(h) \subseteq 3..Len(h)
    BY LenProperties DEF CutPoints, SummaryFrom
  <1>2. SummaryCut(h) = Latest(CutPoints(h)) /\ CutPoints(h) # {}
    BY DEF SummaryCut, Latest
  <1>3. CutPoints(h) \subseteq 1..Len(h)
    BY <1>1
  <1>4. Latest(CutPoints(h)) \in CutPoints(h)
    BY <1>1, <1>2, <1>3, LatestIsGreatest
  <1> QED BY <1>1, <1>2, <1>4

\* A summarizing compaction keeps the task, and everything from the cut on.
LEMMA SummarizedShape ==
    ASSUME NEW h \in Seq(Message), NEW r \in Runs, SummaryCut(h) # 0
    PROVE  /\ Summarized(h, r) \in Seq(Message)
           /\ Len(Summarized(h, r)) = Len(h) - SummaryCut(h) + 3
           /\ Summarized(h, r)[1] = h[1]
           /\ Summarized(h, r)[2] = UserTurn("summary", r)
           /\ \A i \in 3..Len(Summarized(h, r)) :
                 Summarized(h, r)[i] = h[i + SummaryCut(h) - 3]
  <1> DEFINE at == SummaryCut(h)
             a  == SubSeq(h, 1, 1)
             b  == <<UserTurn("summary", r)>>
             c  == SubSeq(h, at, Len(h))
  <1>1. /\ Len(h) \in Nat /\ at \in 3..Len(h)
        /\ \A i \in 1..Len(h) : h[i] \in Message
    BY LenProperties, SummaryCutPosition, ElementOfSeq
  <1> HIDE DEF at
  <1>2. a \in Seq(Message) /\ Len(a) = 1 /\ a[1] = h[1]
    <2>1. \A i \in 1..1 : h[i] \in Message
      BY <1>1
    <2> QED BY <2>1, SubSeqProperties
  <1>3. b \in Seq(Message) /\ Len(b) = 1 /\ b[1] = UserTurn("summary", r)
    <2>1. "summary" \in UserKinds
      BY DEF UserKinds
    <2>2. UserTurn("summary", r) \in Message
      BY <2>1, MessageTypes
    <2> QED BY <2>2
  <1>4. /\ c \in Seq(Message) /\ Len(c) = Len(h) - at + 1
        /\ \A i \in 1..Len(c) : c[i] = h[at + i - 1]
    <2>1. \A i \in at..Len(h) : h[i] \in Message
      BY <1>1
    <2> QED BY <1>1, <2>1, SubSeqProperties
  <1>5. Summarized(h, r) = (a \o b) \o c
    BY DEF Summarized, SummaryFrom, at
  <1> HIDE DEF a, b, c
  <1>6. /\ a \o b \in Seq(Message) /\ Len(a \o b) = 2
        /\ (a \o b)[1] = a[1] /\ (a \o b)[2] = b[1]
    BY <1>2, <1>3, ConcatProperties
  <1>7. /\ (a \o b) \o c \in Seq(Message) /\ Len((a \o b) \o c) = 2 + Len(c)
        /\ \A i \in 1..(2 + Len(c)) : ((a \o b) \o c)[i] =
              IF i <= 2 THEN (a \o b)[i] ELSE c[i - 2]
    BY <1>4, <1>6, ConcatProperties
  <1> DEFINE h2 == (a \o b) \o c
  <1>8. /\ h2 \in Seq(Message) /\ Len(h2) = Len(h) - at + 3
        /\ h2[1] = h[1] /\ h2[2] = UserTurn("summary", r)
    BY <1>1, <1>2, <1>3, <1>4, <1>6, <1>7
  <1>9. ASSUME NEW i \in 3..Len(h2) PROVE h2[i] = h[i + at - 3]
    <2>a. Len(c) \in Nat
      BY <1>1, <1>4
    <2>b. Len(h2) = 2 + Len(c)
      BY <1>7
    <2>c. i \in 3..(2 + Len(c))
      BY <2>b
    <2>1. i - 2 \in 1..Len(c) /\ i \in 1..(2 + Len(c)) /\ ~(i <= 2)
      BY <2>a, <2>c
    <2>2. h2[i] = c[i - 2]
      BY <1>7, <2>1
    <2>3. c[i - 2] = h[at + (i - 2) - 1]
      BY <1>4, <2>1
    <2>4. at + (i - 2) - 1 = i + at - 3
      BY <1>1, <2>1
    <2> QED BY <2>2, <2>3, <2>4
  <1> HIDE DEF h2
  <1>10. Summarized(h, r) = h2
    BY <1>5 DEF h2
  <1> QED BY <1>8, <1>9, <1>10 DEF at

----------------------------------------------------------------------------
(***************************************************************************)
(* Well-formed requests.  A history is either well formed or cut short: a  *)
(* cancellation or a panic in a tool phase leaves the last assistant turn  *)
(* with only the first of its results.                                     *)
(***************************************************************************)

\* The first m messages are a well-formed request of their own.
WellFormedTo(h, m) ==
    \A i \in 1..m :
        /\ h[i].kind = "assistant" =>
              /\ i + h[i].n <= m
              /\ \A j \in 1..h[i].n : h[i + j] = ToolResult(h[i].run, h[i].step, j)
        /\ h[i].kind = "result" => NoOrphanAt(h, i)

\* The turn at a is the last one, and all that follows is some of its results.
CutShort(h, a) ==
    /\ a \in 1..Len(h) /\ WellFormedTo(h, a - 1)
    /\ h[a].kind = "assistant" /\ Len(h) <= a + h[a].n
    /\ \A j \in 1..(Len(h) - a) : h[a + j] = ToolResult(h[a].run, h[a].step, j)

Continuable(h) == WellFormed(h) \/ \E a \in 1..Len(h) : CutShort(h, a)

\* Steering turns are user turns: what a trim may drop carries none.
Plain(h) == \A i \in 1..Len(h) : h[i].kind \in {"assistant", "result"} => h[i].turns = {}

\* The messages of a history, and the number each of them carries.
LEMMA MessageAt ==
    ASSUME NEW h \in Seq(Message)
    PROVE  /\ Len(h) \in Nat
           /\ \A i \in 1..Len(h) : h[i] \in Message /\ h[i].n \in Nat
  <1>1. Len(h) \in Nat /\ \A i \in 1..Len(h) : h[i] \in Message
    BY LenProperties, ElementOfSeq
  <1>2. \A m \in Message : m.n \in Nat
    BY DEF Message
  <1> QED BY <1>1, <1>2

\* A well-formed history is one up to its end.
LEMMA WellFormedWhole ==
    ASSUME NEW h
    PROVE  WellFormed(h) <=> WellFormedTo(h, Len(h))
  BY DEF WellFormed, WellFormedTo, AnsweredAt

\* What the first m messages say of themselves depends on nothing behind them.
LEMMA PrefixDecides ==
    ASSUME NEW h \in Seq(Message), NEW g \in Seq(Message), NEW m \in Nat,
           m <= Len(h), m <= Len(g), \A i \in 1..m : g[i] = h[i], WellFormedTo(h, m)
    PROVE  WellFormedTo(g, m)
  <1> SUFFICES ASSUME NEW i \in 1..m
               PROVE  /\ g[i].kind = "assistant" =>
                            /\ i + g[i].n <= m
                            /\ \A j \in 1..g[i].n :
                                  g[i + j] = ToolResult(g[i].run, g[i].step, j)
                      /\ g[i].kind = "result" => NoOrphanAt(g, i)
    BY DEF WellFormedTo
  <1>1. g[i] = h[i] /\ h[i] \in Message /\ h[i].n \in Nat /\ Len(h) \in Nat /\ Len(g) \in Nat
    <2>1. Len(h) \in Nat /\ Len(g) \in Nat /\ \A x \in 1..Len(h) : h[x] \in Message /\ h[x].n \in Nat
      BY MessageAt
    <2>2. i \in 1..Len(h)
      BY <2>1
    <2> QED BY <2>1, <2>2
  <1>2. ASSUME g[i].kind = "assistant"
        PROVE  /\ i + g[i].n <= m
               /\ \A j \in 1..g[i].n : g[i + j] = ToolResult(g[i].run, g[i].step, j)
    <2>1. i + h[i].n <= m /\ \A j \in 1..h[i].n : h[i + j] = ToolResult(h[i].run, h[i].step, j)
      BY <1>1, <1>2 DEF WellFormedTo
    <2>2. \A j \in 1..h[i].n : i + j \in 1..m
      BY <1>1, <2>1
    <2> QED BY <1>1, <2>1, <2>2
  <1>3. ASSUME g[i].kind = "result" PROVE NoOrphanAt(g, i)
    <2>1. NoOrphanAt(h, i)
      BY <1>1, <1>3 DEF WellFormedTo
    <2>2. i - h[i].n \in 1..m
      BY <1>1, <2>1 DEF NoOrphanAt
    <2>3. g[i - h[i].n] = h[i - h[i].n]
      BY <2>2
    <2> QED BY <1>1, <2>1, <2>3 DEF NoOrphanAt
  <1> QED BY <1>2, <1>3

\* One message more: a user turn, or an assistant turn without calls.
LEMMA AppendWellFormed ==
    ASSUME NEW h \in Seq(Message), NEW m \in Message, WellFormed(h),
           m.kind # "result", m.kind = "assistant" => m.n = 0
    PROVE  WellFormed(Append(h, m))
  <1> DEFINE g == Append(h, m)
  <1>1. /\ g \in Seq(Message) /\ Len(h) \in Nat /\ Len(g) = Len(h) + 1
        /\ g[Len(h) + 1] = m /\ \A i \in 1..Len(h) : g[i] = h[i]
    BY AppendProperties, LenProperties
  <1> HIDE DEF g
  <1>2. WellFormedTo(g, Len(h))
    BY <1>1, PrefixDecides, WellFormedWhole
  <1>3. \A i \in 1..Len(h) : g[i].n \in Nat
    BY <1>1, MessageAt
  <1>4. WellFormedTo(g, Len(h) + 1)
    BY <1>1, <1>2, <1>3 DEF WellFormedTo
  <1> QED BY <1>1, <1>4, WellFormedWhole DEF g

\* An assistant turn with calls: nothing of it is answered yet.
LEMMA AppendCalls ==
    ASSUME NEW h \in Seq(Message), NEW m \in Message, WellFormed(h), m.kind = "assistant"
    PROVE  CutShort(Append(h, m), Len(h) + 1)
  <1> DEFINE g == Append(h, m)
  <1>1. /\ g \in Seq(Message) /\ Len(h) \in Nat /\ Len(g) = Len(h) + 1
        /\ g[Len(h) + 1] = m /\ \A i \in 1..Len(h) : g[i] = h[i]
    BY AppendProperties, LenProperties
  <1> HIDE DEF g
  <1>2. WellFormedTo(g, Len(h)) /\ m.n \in Nat
    <2>1. WellFormedTo(g, Len(h))
      BY <1>1, PrefixDecides, WellFormedWhole
    <2> QED BY <2>1 DEF Message
  <1>3. CutShort(g, Len(h) + 1)
    BY <1>1, <1>2 DEF CutShort
  <1> QED BY <1>3 DEF g

\* A last turn with all of its results is no longer cut short.
LEMMA AllAnswered ==
    ASSUME NEW g \in Seq(Message), NEW a, CutShort(g, a), Len(g) = a + g[a].n
    PROVE  WellFormed(g)
  <1> DEFINE n == g[a].n
             r == g[a].run
             s == g[a].step
  <1>1. /\ a \in 1..Len(g) /\ Len(g) \in Nat /\ a \in Nat /\ n \in Nat /\ WellFormedTo(g, a - 1)
        /\ g[a].kind = "assistant" /\ \A i \in 1..Len(g) : g[i].n \in Nat
    BY MessageAt DEF CutShort
  <1>2. \A i \in 1..n : g[a + i] = ToolResult(r, s, i)
    <2>1. Len(g) - a = n
      BY <1>1
    <2> QED BY <2>1 DEF CutShort
  <1> HIDE DEF n, r, s
  <1>3. ASSUME NEW i \in 1..n PROVE g[a + i].kind # "assistant" /\ NoOrphanAt(g, a + i)
    <2>1. g[a + i] = ToolResult(r, s, i)
      BY <1>2
    <2>2. g[a + i].kind = "result" /\ g[a + i].n = i /\ AnswerID(g[a + i]) = <<r, s, i>>
      BY <2>1 DEF ToolResult, AnswerID
    <2>3. <<r, s, i>> \in CallIDs(g[a])
      BY <1>1 DEF CallIDs, n, r, s
    <2>4. (a + i) - i = a /\ i \in 1..((a + i) - 1)
      BY <1>1
    <2> QED BY <1>1, <2>2, <2>3, <2>4 DEF NoOrphanAt
  <1>4. \A i \in 1..(a + n) : i \in 1..(a - 1) \/ i = a \/ \E j \in 1..n : i = a + j
    <2> SUFFICES ASSUME NEW i \in 1..(a + n), ~(i <= a) PROVE i - a \in 1..n /\ i = a + (i - a)
      BY <1>1
    <2> QED BY <1>1
  <1>5. ASSUME NEW i \in 1..(a - 1)
        PROVE  /\ g[i].kind = "assistant" =>
                     /\ i + g[i].n <= a + n
                     /\ \A j \in 1..g[i].n : g[i + j] = ToolResult(g[i].run, g[i].step, j)
               /\ g[i].kind = "result" => NoOrphanAt(g, i)
    <2>1. g[i].kind = "assistant" => i + g[i].n <= a - 1
      BY <1>1 DEF WellFormedTo
    <2>2. g[i].n \in Nat
      BY <1>1
    <2>3. g[i].kind = "assistant" => i + g[i].n <= a + n
      BY <1>1, <2>1, <2>2
    <2> QED BY <1>1, <2>3 DEF WellFormedTo
  <1>6. /\ g[a].kind # "result" /\ a + g[a].n <= a + n
        /\ \A j \in 1..g[a].n : g[a + j] = ToolResult(g[a].run, g[a].step, j)
    BY <1>1, <1>2 DEF n, r, s
  <1>7. WellFormedTo(g, a + n)
    <2> SUFFICES ASSUME NEW i \in 1..(a + n)
                 PROVE  /\ g[i].kind = "assistant" =>
                              /\ i + g[i].n <= a + n
                              /\ \A j \in 1..g[i].n :
                                    g[i + j] = ToolResult(g[i].run, g[i].step, j)
                        /\ g[i].kind = "result" => NoOrphanAt(g, i)
      BY DEF WellFormedTo
    <2>1. CASE i \in 1..(a - 1)
      BY <1>5, <2>1
    <2>2. CASE i = a
      BY <1>6, <2>2
    <2>3. CASE \E j \in 1..n : i = a + j
      BY <1>3, <2>3
    <2> QED BY <1>4, <2>1, <2>2, <2>3
  <1> QED BY <1>7, WellFormedWhole DEF n

(***************************************************************************)
(* The tool phase: the results of the first k calls behind their turn.     *)
(* With all of them the history is a request again; with fewer it is cut   *)
(* short at the turn.                                                      *)
(***************************************************************************)
LEMMA ResultsAnswer ==
    ASSUME NEW h \in Seq(Message), NEW r \in Runs, NEW s \in Nat, NEW n \in Nat,
           NEW k \in 0..n, CutShort(h, Len(h)), h[Len(h)] = AssistantTurn(r, s, n)
    PROVE  /\ CutShort(h \o ToolResults(r, s, k), Len(h))
           /\ k = n => WellFormed(h \o ToolResults(r, s, k))
  <1> DEFINE a == Len(h)
             g == h \o ToolResults(r, s, k)
  <1>1. /\ a \in Nat /\ a \in 1..Len(h) /\ k \in Nat /\ WellFormedTo(h, a - 1)
        /\ ToolResults(r, s, k) \in Seq(Message) /\ Len(ToolResults(r, s, k)) = k
        /\ \A i \in 1..k : ToolResults(r, s, k)[i] = ToolResult(r, s, i)
    <2>1. /\ ToolResults(r, s, k) \in Seq(Message) /\ Len(ToolResults(r, s, k)) = k
          /\ \A i \in 1..k : ToolResults(r, s, k)[i] = ToolResult(r, s, i)
      BY ToolResultsType
    <2>2. a \in Nat
      BY LenProperties
    <2>3. a \in 1..Len(h) /\ WellFormedTo(h, a - 1)
      BY DEF CutShort
    <2> QED BY <2>1, <2>2, <2>3
  <1>2. /\ g \in Seq(Message) /\ Len(g) = a + k
        /\ \A i \in 1..a : g[i] = h[i]
        /\ \A i \in 1..k : g[a + i] = ToolResult(r, s, i)
    <2>1. /\ g \in Seq(Message) /\ Len(g) = a + k
          /\ \A i \in 1..(a + k) :
                g[i] = IF i <= a THEN h[i] ELSE ToolResults(r, s, k)[i - a]
      BY <1>1, ConcatProperties
    <2> HIDE DEF g, a
    <2>2. ASSUME NEW i \in 1..k PROVE g[a + i] = ToolResult(r, s, i)
      <3>1. a + i \in 1..(a + k) /\ ~(a + i <= a) /\ (a + i) - a = i
        BY <1>1
      <3> QED BY <1>1, <2>1, <3>1
    <2> QED BY <1>1, <2>1, <2>2
  <1>3. /\ g[a].kind = "assistant" /\ g[a].run = r /\ g[a].step = s /\ g[a].n = n
    BY <1>1, <1>2 DEF AssistantTurn
  <1> HIDE DEF g, a
  <1>4. WellFormedTo(g, a - 1)
    <2>1. a - 1 \in Nat /\ a - 1 <= Len(h) /\ a - 1 <= Len(g) /\ \A i \in 1..(a - 1) : g[i] = h[i]
      BY <1>1, <1>2 DEF a
    <2> QED BY <1>1, <1>2, <2>1, PrefixDecides
  <1>5. CutShort(g, a)
    BY <1>1, <1>2, <1>3, <1>4 DEF CutShort
  <1>6. ASSUME k = n PROVE WellFormed(g)
    BY <1>2, <1>3, <1>5, <1>6, AllAnswered
  <1> QED BY <1>5, <1>6 DEF g, a

\* Who lies between a turn and its last result is a result.
LEMMA BetweenAreResults ==
    ASSUME NEW h \in Seq(Message), WellFormed(h), NEW a \in 1..Len(h),
           h[a].kind = "assistant", NEW c \in Nat, a < c, c <= a + h[a].n
    PROVE  h[c].kind = "result"
  <1>1. h[a].n \in Nat /\ \A j \in 1..h[a].n : h[a + j] = ToolResult(h[a].run, h[a].step, j)
    BY MessageAt DEF WellFormed, AnsweredAt
  <1>2. c - a \in 1..h[a].n /\ a + (c - a) = c
    BY <1>1
  <1>3. h[c] = ToolResult(h[a].run, h[a].step, c - a)
    BY <1>1, <1>2
  <1> QED BY <1>3 DEF ToolResult

\* In a well-formed history nothing dangles.
LEMMA WellFormedUntrimmed ==
    ASSUME NEW h \in Seq(Message), WellFormed(h)
    PROVE  TrimDanglingToolTurn(h) = h
  <1> DEFINE last == LastAssistant(h)
  <1>1. last \in 0..Len(h) /\ Len(h) \in Nat /\ (last # 0 => h[last].kind = "assistant")
    BY LastAssistantPosition, MessageAt
  <1>2. CASE last = 0
    BY <1>2 DEF TrimDanglingToolTurn
  <1>3. CASE last # 0
    <2> HIDE DEF last
    <2>1. last \in 1..Len(h) /\ h[last].kind = "assistant"
      BY <1>1, <1>3
    <2>2. /\ h[last].n \in Nat /\ last + h[last].n <= Len(h)
          /\ \A j \in 1..h[last].n : h[last + j] = ToolResult(h[last].run, h[last].step, j)
      BY <2>1, MessageAt DEF WellFormed, AnsweredAt
    <2>3. ASSUME NEW j \in 1..h[last].n
          PROVE  <<h[last].run, h[last].step, j>> \in AnswersIn(h, last + 1, Len(h))
      <3>1. last + j \in (last + 1)..Len(h)
        BY <1>1, <2>1, <2>2
      <3>0. h[last + j] = ToolResult(h[last].run, h[last].step, j)
        BY <2>2
      <3>2. h[last + j].kind = "result"
        BY <3>0 DEF ToolResult
      <3>3. AnswerID(h[last + j]) = <<h[last].run, h[last].step, j>>
        BY <3>0 DEF ToolResult, AnswerID
      <3> QED BY <3>1, <3>2, <3>3 DEF AnswersIn
    <2>4. CallIDs(h[last]) \subseteq AnswersIn(h, last + 1, Len(h))
      BY <2>3 DEF CallIDs
    <2> QED BY <2>4 DEF TrimDanglingToolTurn, last
  <1> QED BY <1>2, <1>3

\* In a history cut short the turn looked at is the one that was cut.
LEMMA CutIsLastAssistant ==
    ASSUME NEW h \in Seq(Message), NEW a, CutShort(h, a)
    PROVE  LastAssistant(h) = a
  <1>1. /\ a \in 1..Len(h) /\ Len(h) \in Nat /\ LastAssistant(h) \in 0..Len(h)
        /\ LastAssistant(h) # 0 => h[LastAssistant(h)].kind = "assistant"
        /\ h[a].kind = "assistant"
    BY LastAssistantPosition, MessageAt DEF CutShort
  <1>2. a <= LastAssistant(h)
    BY <1>1, LastAssistantPosition
  <1>3. ASSUME a < LastAssistant(h) PROVE FALSE
    <2>1. LastAssistant(h) - a \in 1..(Len(h) - a) /\ a + (LastAssistant(h) - a) = LastAssistant(h)
      BY <1>1, <1>3
    <2>2. h[LastAssistant(h)] = ToolResult(h[a].run, h[a].step, LastAssistant(h) - a)
      BY <2>1 DEF CutShort
    <2>3. h[LastAssistant(h)].kind = "result"
      BY <2>2 DEF ToolResult
    <2> QED BY <1>1, <1>2, <1>3, <2>3
  <1> QED BY <1>1, <1>2, <1>3

\* When every call of the cut turn is answered behind it, none is missing.
LEMMA CutAnswered ==
    ASSUME NEW h \in Seq(Message), NEW a, CutShort(h, a),
           CallIDs(h[a]) \subseteq AnswersIn(h, a + 1, Len(h))
    PROVE  Len(h) = a + h[a].n
  <1>1. /\ a \in 1..Len(h) /\ Len(h) \in Nat /\ h[a].n \in Nat /\ Len(h) <= a + h[a].n
        /\ h[a].kind = "assistant"
    BY MessageAt DEF CutShort
  <1> SUFFICES ASSUME Len(h) < a + h[a].n PROVE FALSE
    BY <1>1
  <1> DEFINE j == Len(h) - a + 1
  <1>2. j \in 1..h[a].n
    BY <1>1
  <1>3. <<h[a].run, h[a].step, j>> \in AnswersIn(h, a + 1, Len(h))
    BY <1>1, <1>2 DEF CallIDs
  <1>4. PICK k \in (a + 1)..Len(h) : AnswerID(h[k]) = <<h[a].run, h[a].step, j>>
    BY <1>3 DEF AnswersIn
  <1>5. k - a \in 1..(Len(h) - a) /\ a + (k - a) = k
    BY <1>1
  <1>6. h[k] = ToolResult(h[a].run, h[a].step, k - a)
    BY <1>5 DEF CutShort
  <1>7. AnswerID(h[k]) = <<h[a].run, h[a].step, k - a>>
    BY <1>6 DEF AnswerID, ToolResult
  <1>8. j = k - a
    BY <1>4, <1>7
  <1> QED BY <1>1, <1>5, <1>8

(***************************************************************************)
(* trimDanglingToolTurn: whatever state the earlier run was left in, the   *)
(* seed of the next one is a well-formed request, and every steering turn  *)
(* is still in it.                                                         *)
(***************************************************************************)
LEMMA TrimMends ==
    ASSUME NEW h \in Seq(Message), Continuable(h), Plain(h)
    PROVE  /\ WellFormed(TrimDanglingToolTurn(h))
           /\ TurnsOf(h) \subseteq TurnsOf(TrimDanglingToolTurn(h))
           /\ Plain(TrimDanglingToolTurn(h))
  <1> DEFINE g == TrimDanglingToolTurn(h)
  <1>1. CASE WellFormed(h)
    BY <1>1, WellFormedUntrimmed
  <1>2. ASSUME NEW a \in 1..Len(h), CutShort(h, a)
        PROVE  WellFormed(g) /\ TurnsOf(h) \subseteq TurnsOf(g) /\ Plain(g)
    <2>1. /\ LastAssistant(h) = a /\ Len(h) \in Nat /\ a \in 1..Len(h) /\ a \in Nat
          /\ WellFormedTo(h, a - 1)
      <3>1. LastAssistant(h) = a
        BY <1>2, CutIsLastAssistant
      <3>2. Len(h) \in Nat
        BY MessageAt
      <3>3. WellFormedTo(h, a - 1)
        BY <1>2 DEF CutShort
      <3> QED BY <3>1, <3>2, <3>3
    <2>2. CASE CallIDs(h[a]) \subseteq AnswersIn(h, a + 1, Len(h))
      <3>1. g = h
        BY <2>1, <2>2 DEF TrimDanglingToolTurn
      <3>2. WellFormed(h)
        BY <1>2, <2>2, CutAnswered, AllAnswered
      <3> QED BY <3>1, <3>2
    <2>3. CASE ~(CallIDs(h[a]) \subseteq AnswersIn(h, a + 1, Len(h)))
      <3>1. g = SubSeq(h, 1, a - 1)
        BY <2>1, <2>3 DEF TrimDanglingToolTurn
      <3>2. g \in Seq(Message) /\ \A i \in 1..Len(g) : g[i] = h[i]
        BY TrimIsPrefix
      <3>3. Len(g) = a - 1
        <4>1. \A i \in 1..(a - 1) : h[i] \in Message
          BY <2>1, MessageAt
        <4>2. Len(SubSeq(h, 1, a - 1)) = IF 1 <= a - 1 THEN (a - 1) - 1 + 1 ELSE 0
          BY <2>1, <4>1, SubSeqProperties
        <4> QED BY <2>1, <3>1, <4>2
      <3> HIDE DEF g
      <3>4. WellFormed(g)
        <4>1. a - 1 \in Nat /\ a - 1 <= Len(h) /\ a - 1 <= Len(g)
          BY <2>1, <3>3
        <4>2. WellFormedTo(g, a - 1)
          BY <2>1, <3>2, <3>3, <4>1, PrefixDecides
        <4> QED BY <3>3, <4>2, WellFormedWhole
      <3>5. ASSUME NEW i \in 1..Len(h) PROVE h[i].turns \subseteq TurnsOf(g)
        <4>1. CASE i < a
          <5>1. i \in 1..Len(g) /\ g[i] = h[i]
            BY <2>1, <3>2, <3>3, <4>1
          <5> QED BY <5>1 DEF TurnsOf
        <4>2. CASE i = a
          BY <1>2, <4>2 DEF CutShort, Plain
        <4>3. CASE a < i
          <5>1. i - a \in 1..(Len(h) - a) /\ a + (i - a) = i
            BY <2>1, <4>3
          <5>2. h[i] = ToolResult(h[a].run, h[a].step, i - a)
            BY <1>2, <5>1 DEF CutShort
          <5> QED BY <5>2 DEF ToolResult
        <4> QED BY <2>1, <4>1, <4>2, <4>3
      <3>6. TurnsOf(h) \subseteq TurnsOf(g)
        BY <3>5 DEF TurnsOf
      <3>7. Plain(g)
        <4>1. \A i \in 1..Len(g) : i \in 1..Len(h)
          BY <2>1, <3>3
        <4> QED BY <3>2, <4>1 DEF Plain
      <3> QED BY <3>4, <3>6, <3>7
    <2> QED BY <2>2, <2>3
  <1> QED BY <1>1, <1>2 DEF Continuable

(***************************************************************************)
(* summaryCut: the cut is at an assistant turn, so it separates no result  *)
(* from its turn, and the request with the summary is well formed.         *)
(***************************************************************************)
LEMMA SummaryMends ==
    ASSUME NEW h \in Seq(Message), NEW r \in Runs, SummaryCut(h) # 0, WellFormed(h)
    PROVE  WellFormed(Summarized(h, r))
  <1> DEFINE g == Summarized(h, r)
             c == SummaryCut(h)
             d == c - 3
  <1>1. /\ g \in Seq(Message) /\ Len(g) = Len(h) - c + 3 /\ g[1] = h[1]
        /\ g[2] = UserTurn("summary", r) /\ \A i \in 3..Len(g) : g[i] = h[i + c - 3]
    BY SummarizedShape
  <1>2. c \in CutPoints(h) /\ c \in 3..Len(h) /\ h[c].kind = "assistant"
    BY SummaryCutPosition DEF CutPoints
  <1>3. /\ Len(h) \in Nat /\ Len(g) \in Nat
        /\ \A i \in 1..Len(h) : h[i] \in Message /\ h[i].n \in Nat
    BY <1>1, MessageAt
  <1>4. h[1].kind \notin {"assistant", "result"}
    BY DEF SummaryCut, HasTask, UserKinds, HarnessKinds
  <1> HIDE DEF g, c
  <1>5. /\ d \in Nat /\ Len(g) = Len(h) - d
        /\ \A i \in 3..Len(g) : i + d \in c..Len(h) /\ g[i] = h[i + d]
    <2>1. d \in Nat /\ Len(g) = Len(h) - d
      BY <1>1, <1>2, <1>3
    <2>2. ASSUME NEW i \in 3..Len(g) PROVE i + d \in c..Len(h) /\ g[i] = h[i + d]
      <3>1. i + d \in c..Len(h) /\ i + d = i + c - 3
        BY <1>2, <1>3, <2>1
      <3> QED BY <1>1, <3>1
    <2> QED BY <2>1, <2>2
  <1>6. ASSUME NEW i \in 3..Len(g), g[i].kind = "assistant" PROVE AnsweredAt(g, i)
    <2> DEFINE k == i + d
    <2>1. k \in 1..Len(h) /\ g[i] = h[k] /\ h[k].n \in Nat
      BY <1>2, <1>3, <1>5
    <2>2. /\ k + h[k].n <= Len(h)
          /\ \A j \in 1..h[k].n : h[k + j] = ToolResult(h[k].run, h[k].step, j)
      BY <1>6, <2>1 DEF WellFormed, AnsweredAt
    <2>3. i + g[i].n <= Len(g)
      BY <1>3, <1>5, <2>1, <2>2
    <2>4. ASSUME NEW j \in 1..g[i].n PROVE g[i + j] = ToolResult(g[i].run, g[i].step, j)
      <3>1. g[i].n \in Nat /\ Len(g) \in Nat /\ d \in Nat
        BY <1>3, <1>5, <2>1
      <3>2. i + j \in 3..Len(g) /\ (i + j) + d = k + j
        BY <2>3, <3>1
      <3> QED BY <1>5, <2>1, <2>2, <3>2
    <2> QED BY <2>3, <2>4 DEF AnsweredAt
  <1>7. ASSUME NEW i \in 3..Len(g), g[i].kind = "result" PROVE NoOrphanAt(g, i)
    <2> DEFINE k == i + d
               n == h[k].n
               a == k - n
    <2>1. k \in 1..Len(h) /\ k \in c..Len(h) /\ g[i] = h[k] /\ n \in Nat
      <3>1. k \in c..Len(h) /\ g[i] = h[k]
        BY <1>5
      <3>2. k \in 1..Len(h)
        BY <1>2, <1>3, <3>1
      <3> QED BY <1>3, <3>1, <3>2
    <2>2. n \in 1..(k - 1) /\ h[a].kind = "assistant" /\ AnswerID(h[k]) \in CallIDs(h[a])
      BY <1>7, <2>1 DEF WellFormed, NoOrphanAt
    <2>3. a \in 1..Len(h) /\ h[a].n \in Nat
      <3>1. a \in 1..Len(h)
        BY <1>3, <2>1, <2>2
      <3> QED BY <1>3, <3>1
    <2>4. n <= h[a].n
      <3>1. PICK x \in 1..h[a].n : AnswerID(h[k]) = <<h[a].run, h[a].step, x>>
        BY <2>2 DEF CallIDs
      <3>2. n = x
        BY <3>1 DEF AnswerID
      <3> QED BY <2>3, <3>2
    <2>a. a = k - n /\ k = i + d
      OBVIOUS
    <2>b. g[i].n = n
      BY <2>1
    <2> HIDE DEF n, a, k
    <2>5. ASSUME a < c PROVE FALSE
      <3>1. c \in Nat /\ c <= a + h[a].n
        <4>1. c \in Nat /\ Len(h) \in Nat
          BY <1>2, <1>3
        <4>2. k \in Nat /\ c <= k
          BY <2>1, <4>1
        <4>3. a \in Nat /\ n \in Nat /\ k = a + n
          BY <2>1, <2>3, <2>a, <4>2
        <4> QED BY <2>3, <2>4, <4>1, <4>2, <4>3
      <3>2. h[c].kind = "result"
        BY <2>2, <2>3, <2>5, <3>1, BetweenAreResults
      <3> QED BY <1>2, <3>2
    <2>6. i - n \in 3..Len(g) /\ (i - n) + d = a
      BY <1>2, <1>3, <1>5, <2>1, <2>2, <2>3, <2>5, <2>a
    <2>7. g[i - n] = h[a]
      BY <1>5, <2>6
    <2>8. g[i].n = n /\ n \in 1..(i - 1)
      BY <1>3, <1>5, <2>2, <2>6, <2>b
    <2> QED BY <2>1, <2>2, <2>7, <2>8 DEF NoOrphanAt
  <1>8. \A i \in 1..Len(g) : i \in 3..Len(g) \/ g[i].kind \notin {"assistant", "result"}
    <2>1. g[2].kind \notin {"assistant", "result"}
      BY <1>1 DEF UserTurn
    <2> QED BY <1>1, <1>3, <1>4, <2>1
  <1>9. WellFormed(g)
    BY <1>6, <1>7, <1>8 DEF WellFormed
  <1> QED BY <1>9 DEF g

\* Only a drain's message carries steering turns, whatever is appended or summarized.
LEMMA PlainKept ==
    ASSUME NEW h \in Seq(Message), Plain(h)
    PROVE  /\ \A m \in Message : (m.kind \in {"assistant", "result"} => m.turns = {})
                 => Plain(Append(h, m))
           /\ \A r \in Runs, s, k \in Nat : Plain(h \o ToolResults(r, s, k))
           /\ \A r \in Runs : SummaryCut(h) # 0 => Plain(Summarized(h, r))
  <1>1. Len(h) \in Nat /\ \A i \in 1..Len(h) : h[i] \in Message
    BY MessageAt
  <1>2. ASSUME NEW m \in Message, m.kind \in {"assistant", "result"} => m.turns = {}
        PROVE  Plain(Append(h, m))
    <2>1. /\ Len(Append(h, m)) = Len(h) + 1 /\ Append(h, m)[Len(h) + 1] = m
          /\ \A i \in 1..Len(h) : Append(h, m)[i] = h[i]
      BY AppendProperties
    <2>2. \A i \in 1..(Len(h) + 1) : i \in 1..Len(h) \/ i = Len(h) + 1
      BY <1>1
    <2> QED BY <1>2, <2>1, <2>2 DEF Plain
  <1>3. ASSUME NEW r \in Runs, NEW s \in Nat, NEW k \in Nat
        PROVE  Plain(h \o ToolResults(r, s, k))
    <2> DEFINE t == ToolResults(r, s, k)
    <2>1. /\ t \in Seq(Message) /\ Len(t) = k /\ \A i \in 1..k : t[i] = ToolResult(r, s, i)
      BY ToolResultsType
    <2> HIDE DEF t
    <2>2. /\ Len(h \o t) = Len(h) + k
          /\ \A i \in 1..(Len(h) + k) : (h \o t)[i] = IF i <= Len(h) THEN h[i] ELSE t[i - Len(h)]
      BY <2>1, ConcatProperties
    <2>3. ASSUME NEW i \in 1..(Len(h) + k) PROVE
            (h \o t)[i].kind \in {"assistant", "result"} => (h \o t)[i].turns = {}
      <3>1. CASE i <= Len(h)
        <4>1. i \in 1..Len(h) /\ (h \o t)[i] = h[i]
          BY <1>1, <2>2, <3>1
        <4> QED BY <4>1 DEF Plain
      <3>2. CASE ~(i <= Len(h))
        <4>1. i - Len(h) \in 1..k /\ (h \o t)[i] = t[i - Len(h)]
          BY <1>1, <2>2, <3>2
        <4>2. (h \o t)[i] = ToolResult(r, s, i - Len(h))
          BY <2>1, <4>1
        <4> QED BY <4>2 DEF ToolResult
      <3> QED BY <3>1, <3>2
    <2>4. Plain(h \o t)
      BY <2>2, <2>3 DEF Plain
    <2> QED BY <2>4 DEF t
  <1>4. ASSUME NEW r \in Runs, SummaryCut(h) # 0 PROVE Plain(Summarized(h, r))
    <2> DEFINE g == Summarized(h, r)
               c == SummaryCut(h)
    <2>1. /\ Len(g) = Len(h) - c + 3 /\ g[1] = h[1] /\ g[2] = UserTurn("summary", r)
          /\ \A i \in 3..Len(g) : g[i] = h[i + c - 3]
      BY <1>4, SummarizedShape
    <2>2. c \in 3..Len(h)
      BY <1>4, SummaryCutPosition
    <2> HIDE DEF g, c
    <2>3. \A i \in 3..Len(g) : i + c - 3 \in 1..Len(h)
      BY <1>1, <2>1, <2>2
    <2>4. g[1].kind \in {"assistant", "result"} => g[1].turns = {}
      <3>1. 1 \in 1..Len(h) /\ g[1] = h[1]
        BY <1>1, <2>1, <2>2
      <3> QED BY <3>1, Zenon DEF Plain
    <2>5. g[2].kind \notin {"assistant", "result"}
      BY <2>1 DEF UserTurn
    <2>6. \A i \in 1..Len(g) : i = 1 \/ i = 2 \/ i \in 3..Len(g)
      BY <1>1, <2>1, <2>2
    <2>7. Plain(g)
      BY <2>1, <2>3, <2>4, <2>5, <2>6 DEF Plain
    <2> QED BY <2>7 DEF g
  <1> QED BY <1>2, <1>3, <1>4

----------------------------------------------------------------------------
\* The helpers that assign one run's entry of a variable.
LEMMA SetType ==
    ASSUME NEW S, NEW f \in [Runs -> S], NEW r \in Runs, NEW v \in S
    PROVE  /\ Set(f, r, v) \in [Runs -> S]
           /\ Set(f, r, v)[r] = v
           /\ \A q \in Runs \ {r} : Set(f, r, v)[q] = f[q]
  BY DEF Set

\* Appending one message to a history, or a drain's turns.
LEMMA PushType ==
    ASSUME NEW h \in Seq(Message), NEW m \in Message
    PROVE  Append(h, m) \in Seq(Message)
  BY AppendProperties

\* What a drain can take: turn numbers.
LEMMA TurnsAreNumbers ==
    ASSUME TypeOK
    PROVE  queue \in SUBSET Nat /\ Steers \in SUBSET queue
  <1>1. Len(turnKind) \in Nat
    BY LenProperties DEF TypeOK
  <1>2. 1..Len(turnKind) \subseteq Nat
    BY <1>1
  <1> QED BY <1>2 DEF TypeOK, Steers

\* A charge keeps the types of the pool's and the run's accounts.
LEMMA ChargeType ==
    ASSUME TypeOK, NEW r \in Runs, NEW cost \in Costs,
           NEW kind \in {"completion", "compaction"},
           Charge(r, kind, cost)
    PROVE  /\ usage' \in [Runs -> Nat]
           /\ spent' \in Nat
           /\ late' \in [Runs -> Nat]
           /\ latePasses' \in [Runs -> Nat]
  <1>1. cost \in Nat
    BY LimitsAssumption
  <1>2. usage' \in [Runs -> Nat] /\ spent' \in Nat
    BY <1>1 DEF Charge, TypeOK, Set
  <1>3. late' \in [Runs -> Nat]
    <2>1. late[r] \in Nat /\ late[r] + 1 \in Nat
      BY DEF TypeOK
    <2> QED BY <2>1 DEF Charge, TypeOK, Set
  <1>4. latePasses' \in [Runs -> Nat]
    <2>1. latePasses[r] \in Nat /\ latePasses[r] + 1 \in Nat
      BY DEF TypeOK
    <2> QED BY <2>1 DEF Charge, TypeOK, Set
  <1> QED BY <1>2, <1>3, <1>4

\* The failure paths and the entry of completeOnce.
LEMMA ControlType ==
    ASSUME TypeOK, NEW r \in Runs
    PROVE  /\ \A failure \in Failures : Fail(r, failure) =>
                 pc' \in [Runs -> Labels] /\ result' \in [Runs -> Results]
           /\ \A s \in {"main", "final", "repair"}, label \in Labels :
                 BeginCompletion(r, s, label) =>
                     /\ pc' \in [Runs -> Labels]
                     /\ stage' \in [Runs -> {"main", "final", "repair"}]
                     /\ half' \in [Runs -> {1, 2}]
                     /\ retried' \in [Runs -> BOOLEAN]
           /\ \A label \in Labels : Goto(r, label) => pc' \in [Runs -> Labels]
  <1>1. ASSUME NEW failure \in Failures, Fail(r, failure)
        PROVE  pc' \in [Runs -> Labels] /\ result' \in [Runs -> Results]
    BY <1>1 DEF Fail, Goto, Set, TypeOK, Labels, Results
  <1>2. ASSUME NEW label \in Labels, Goto(r, label) PROVE pc' \in [Runs -> Labels]
    BY <1>2 DEF Goto, Set, TypeOK
  <1>3. ASSUME NEW s \in {"main", "final", "repair"}, NEW label \in Labels,
               BeginCompletion(r, s, label)
        PROVE  /\ pc' \in [Runs -> Labels]
               /\ stage' \in [Runs -> {"main", "final", "repair"}]
               /\ half' \in [Runs -> {1, 2}]
               /\ retried' \in [Runs -> BOOLEAN]
    BY <1>2, <1>3 DEF BeginCompletion, Set, TypeOK
  <1> QED BY <1>1, <1>2, <1>3

\* finalizeAndTruncate changes the loop's control and appends at most one turn.
LEMMA FinalizeType ==
    ASSUME TypeOK, NEW r \in Runs, NEW reason \in LimitReasons, NEW h \in Seq(Message),
           FinalizeAndTruncate(r, reason, h)
    PROVE  /\ pc' \in [Runs -> Labels]
           /\ stage' \in [Runs -> {"main", "final", "repair"}]
           /\ half' \in [Runs -> {1, 2}]
           /\ retried' \in [Runs -> BOOLEAN]
           /\ hist' \in [Runs -> Seq(Message)]
           /\ why' \in [Runs -> LimitReasons \cup {"none"}]
           /\ trunc' \in [Runs -> TruncationReasons \cup {"none"}]
           /\ finalized' \in [Runs -> BOOLEAN]
  <1>1. CASE r \notin JSONRuns \/ finalized[r]
    <2>1. /\ pc' = Set(pc, r, "unwind") /\ trunc' = Set(trunc, r, reason)
          /\ hist' = Set(hist, r, h)
          /\ UNCHANGED <<stage, half, retried, why, finalized>>
      BY <1>1 DEF FinalizeAndTruncate, StopLoop, Goto
    <2>2. hist' \in [Runs -> Seq(Message)]
      BY <2>1, SetType DEF TypeOK
    <2>3. pc' \in [Runs -> Labels]
      BY <2>1, SetType DEF TypeOK, Labels
    <2>4. trunc' \in [Runs -> TruncationReasons \cup {"none"}]
      <3>1. reason \in TruncationReasons \cup {"none"}
        BY DEF TruncationReasons
      <3> QED BY <2>1, <3>1, SetType DEF TypeOK
    <2> QED BY <2>1, <2>2, <2>3, <2>4 DEF TypeOK
  <1>2. CASE ~(r \notin JSONRuns \/ finalized[r])
    <2>1. /\ hist' = Set(hist, r, Append(h, UserTurn("finalize", r)))
          /\ finalized' = Set(finalized, r, TRUE)
          /\ why' = Set(why, r, reason)
          /\ BeginCompletion(r, "final", "compact")
          /\ UNCHANGED trunc
      BY <1>2 DEF FinalizeAndTruncate
    <2>2. UserTurn("finalize", r) \in Message
      <3>1. "finalize" \in UserKinds
        BY DEF UserKinds, HarnessKinds
      <3> QED BY <3>1, MessageTypes
    <2>3. Append(h, UserTurn("finalize", r)) \in Seq(Message)
      BY <2>2, PushType
    <2>4. hist' \in [Runs -> Seq(Message)]
      BY <2>1, <2>3, SetType DEF TypeOK
    <2>5. why' \in [Runs -> LimitReasons \cup {"none"}]
      <3>1. reason \in LimitReasons \cup {"none"}
        OBVIOUS
      <3> QED BY <2>1, <3>1, SetType DEF TypeOK
    <2>6. finalized' \in [Runs -> BOOLEAN]
      BY <2>1, SetType DEF TypeOK
    <2>7. "compact" \in Labels
      BY DEF Labels
    <2> QED BY <2>1, <2>4, <2>5, <2>6, <2>7, ControlType DEF TypeOK
  <1> QED BY <1>1, <1>2

\* A drain: the turns leave the queue and join the history and the record.
LEMMA DeliverType ==
    ASSUME TypeOK, NEW r \in Runs, NEW T \in SUBSET queue, Deliver(r, T)
    PROVE  /\ hist' \in [Runs -> Seq(Message)]
           /\ queue' \subseteq 1..Len(turnKind)
           /\ delivered' \in Seq([run : Runs, turns : SUBSET Nat])
  <1>1. T \in SUBSET Nat
    BY TurnsAreNumbers
  <1>2. queue' \subseteq 1..Len(turnKind)
    BY DEF Deliver, TypeOK
  <1>3. CASE T = {}
    BY <1>2, <1>3 DEF Deliver, TypeOK
  <1>4. CASE T # {}
    <2>1. SteerTurns(r, T) \in Message
      BY <1>1, MessageTypes
    <2>2. hist[r] \in Seq(Message)
      BY DEF TypeOK
    <2>3. Append(hist[r], SteerTurns(r, T)) \in Seq(Message)
      BY <2>1, <2>2, PushType
    <2>4. hist' \in [Runs -> Seq(Message)]
      <3>1. hist' = Set(hist, r, Append(hist[r], SteerTurns(r, T)))
        BY <1>4 DEF Deliver, Push
      <3> QED BY <2>3, <3>1, SetType DEF TypeOK
    <2>5. [run |-> r, turns |-> T] \in [run : Runs, turns : SUBSET Nat]
      BY <1>1
    <2>6. delivered' \in Seq([run : Runs, turns : SUBSET Nat])
      <3> DEFINE entry == [run |-> r, turns |-> T]
                 Entries == [run : Runs, turns : SUBSET Nat]
      <3>1. delivered' = Append(delivered, entry)
        BY <1>4 DEF Deliver
      <3>2. delivered \in Seq(Entries) /\ entry \in Entries
        BY <2>5 DEF TypeOK
      <3> HIDE DEF entry, Entries
      <3>3. delivered' \in Seq(Entries)
        BY <3>1, <3>2, AppendProperties
      <3> QED BY <3>3 DEF Entries
    <2> QED BY <1>2, <2>4, <2>6
  <1> QED BY <1>3, <1>4

\* Run and RunJSON begin.
LEMMA StartType ==
    ASSUME TypeOK, NEW r \in Runs, NEW p \in Runs \cup {NoRun}, Start(r, p)
    PROVE  TypeOK'
  <1>1. parent' \in [Runs -> Runs \cup {NoRun}]
    BY SetType DEF Start, TypeOK
  <1>2. CASE r \in Steered /\ bound
    <2>1. /\ result' = Set(result, r, "inUse") /\ pc' = Set(pc, r, "done")
          /\ UNCHANGED <<hist, bound>>
      BY <1>2 DEF Start, Goto
    <2>2. pc' \in [Runs -> Labels] /\ result' \in [Runs -> Results]
      BY <2>1 DEF Set, TypeOK, Labels, Results
    <2> QED BY <1>1, <2>1, <2>2 DEF Start, TypeOK, poolVars
  <1>3. CASE ~(r \in Steered /\ bound)
    <2> DEFINE seed == IF p = NoRun THEN <<>> ELSE hist[p]
    <2>1. /\ hist' = Set(hist, r, Append(TrimDanglingToolTurn(seed), UserTurn("task", r)))
          /\ bound' = (bound \/ r \in Steered)
          /\ pc' = Set(pc, r, "top")
          /\ UNCHANGED result
      BY <1>3 DEF Start, Goto
    <2>2. seed \in Seq(Message)
      BY DEF TypeOK
    <2> HIDE DEF seed
    <2>3. "task" \in UserKinds
      BY DEF UserKinds
    <2>4. UserTurn("task", r) \in Message
      BY <2>3, MessageTypes
    <2>5. Append(TrimDanglingToolTurn(seed), UserTurn("task", r)) \in Seq(Message)
      BY <2>2, <2>4, TrimIsPrefix, PushType
    <2>6. hist' \in [Runs -> Seq(Message)]
      BY <2>1, <2>5, SetType DEF TypeOK
    <2>7. pc' \in [Runs -> Labels]
      BY <2>1 DEF Set, TypeOK, Labels
    <2>8. bound' \in BOOLEAN
      BY <2>1
    <2> QED BY <1>1, <2>1, <2>6, <2>7, <2>8 DEF Start, TypeOK, poolVars
  <1> QED BY <1>2, <1>3

\* The limit checks at the top of the loop.
LEMMA CheckLimitsType ==
    ASSUME TypeOK, NEW r \in Runs, CheckLimits(r)
    PROVE  TypeOK'
  <1>1. CASE LimitReason(r) = "none"
    <2>1. Goto(r, "boundary") /\ UNCHANGED <<stage, half, retried, hist, why, trunc, finalized>>
      BY <1>1 DEF CheckLimits
    <2>2. pc' \in [Runs -> Labels]
      BY <2>1 DEF Goto, Set, TypeOK, Labels
    <2> QED BY <2>1, <2>2 DEF CheckLimits, TypeOK, steerVars, poolVars
  <1>2. CASE LimitReason(r) # "none"
    <2>1. FinalizeAndTruncate(r, LimitReason(r), hist[r])
      BY <1>2 DEF CheckLimits
    <2>2. LimitReason(r) \in LimitReasons
      BY <1>2 DEF LimitReason, LimitReasons
    <2>3. hist[r] \in Seq(Message)
      BY DEF TypeOK
    <2> QED BY <2>1, <2>2, <2>3, FinalizeType DEF CheckLimits, TypeOK, steerVars, poolVars
  <1> QED BY <1>1, <1>2

\* The context check and the steer drain.
LEMMA BoundaryType ==
    ASSUME TypeOK, NEW r \in Runs, Boundary(r)
    PROVE  TypeOK'
  <1>1. CASE cancelled[r]
    <2>1. Fail(r, "cancelled") /\ UNCHANGED <<stage, half, retried, hist, queue, delivered>>
      BY <1>1 DEF Boundary
    <2>2. pc' \in [Runs -> Labels] /\ result' \in [Runs -> Results]
      BY <2>1, ControlType DEF Failures
    <2> QED BY <2>1, <2>2 DEF Boundary, TypeOK, poolVars
  <1>2. CASE ~cancelled[r]
    <2> DEFINE T == IF r \in Steered THEN Steers ELSE {}
    <2>1. Deliver(r, T) /\ BeginCompletion(r, "main", "compact") /\ UNCHANGED result
      BY <1>2 DEF Boundary
    <2>2. T \in SUBSET queue
      BY TurnsAreNumbers
    <2> HIDE DEF T
    <2>3. "compact" \in Labels
      BY DEF Labels
    <2> QED BY <2>1, <2>2, <2>3, DeliverType, ControlType DEF Boundary, TypeOK, poolVars
  <1> QED BY <1>1, <1>2

\* Compaction before a completion.
LEMMA CompactType ==
    ASSUME TypeOK, NEW r \in Runs, Compact(r)
    PROVE  TypeOK'
  <1> USE DEF runVars, steerVars, poolVars
  <1>1. CASE CompactFree(r)
    <2>1. pc' \in [Runs -> Labels]
      BY <1>1 DEF CompactFree, Goto, Set, TypeOK, Labels
    <2> QED BY <1>1, <2>1 DEF CompactFree, TypeOK
  <1>2. ASSUME NEW cost \in Costs, CompactSummary(r, cost) PROVE TypeOK'
    <2>1. pc' \in [Runs -> Labels]
      BY <1>2 DEF CompactSummary, Goto, Set, TypeOK, Labels
    <2>2. hist[r] \in Seq(Message) /\ SummaryCut(hist[r]) # 0
      BY <1>2 DEF CompactSummary, Summarizes, TypeOK
    <2>3. Summarized(hist[r], r) \in Seq(Message)
      BY <2>2, SummarizedShape
    <2>4. hist' \in [Runs -> Seq(Message)]
      <3>1. hist' = hist \/ hist' = Set(hist, r, Summarized(hist[r], r))
        BY <1>2 DEF CompactSummary
      <3>2. hist \in [Runs -> Seq(Message)]
        BY DEF TypeOK
      <3>3. Set(hist, r, Summarized(hist[r], r)) \in [Runs -> Seq(Message)]
        BY <2>3, <3>2, SetType
      <3> QED BY <3>1, <3>2, <3>3
    <2>5. Charge(r, "compaction", cost)
      BY <1>2 DEF CompactSummary
    <2> QED BY <1>2, <2>1, <2>4, <2>5, ChargeType DEF CompactSummary, TypeOK
  <1>3. ASSUME NEW cost \in Costs, CompactFail(r, cost) PROVE TypeOK'
    <2>1. Charge(r, "compaction", cost) /\ Fail(r, "error")
      BY <1>3 DEF CompactFail
    <2>2. pc' \in [Runs -> Labels] /\ result' \in [Runs -> Results]
      BY <2>1, ControlType DEF Failures
    <2> QED BY <1>3, <2>1, <2>2, ChargeType DEF CompactFail, TypeOK
  <1> QED BY <1>1, <1>2, <1>3 DEF Compact

\* A completion that succeeds.
LEMMA CompletionReturnsType ==
    ASSUME TypeOK, NEW r \in Runs, NEW answer \in Responses, NEW cost \in Costs,
           CompletionReturns(r, answer, cost)
    PROVE  TypeOK'
  <1> DEFINE turn == AssistantTurn(r, iters[r] + 1, answer.calls)
             text == answer.text \/ (half[r] = 2 /\ resp[r].text)
             joined == [calls |-> answer.calls, stop |-> answer.stop, text |-> text]
             continued == half[r] = 1 /\ answer.stop = "max" /\ answer.calls = 0
  <1>1. iters[r] \in Nat /\ hist[r] \in Seq(Message) /\ why[r] \in LimitReasons \cup {"none"}
    BY DEF TypeOK
  <1>2. /\ answer.calls \in Nat /\ answer.stop \in {"end", "max", "refusal"}
        /\ answer.text \in BOOLEAN /\ answer \in Response
    <2>1. 1..MaxCalls \subseteq Nat
      BY LimitsAssumption
    <2>2. answer \in Response
      <3>1. CASE answer \in [calls : {0}, stop : {"end", "max", "refusal"}, text : BOOLEAN]
        BY <3>1 DEF Response
      <3>2. CASE answer \in [calls : 1..MaxCalls, stop : {"end"}, text : {TRUE}]
        BY <2>1, <3>2 DEF Response
      <3> QED BY <3>1, <3>2 DEF Responses
    <2> QED BY <2>2 DEF Response
  <1>3. joined \in Response
    <2>1. text \in BOOLEAN
      OBVIOUS
    <2> HIDE DEF text
    <2> QED BY <1>2, <2>1 DEF Response
  <1>4. turn \in Message /\ UserTurn("continue", r) \in Message
    <2>1. "continue" \in UserKinds
      BY DEF UserKinds, HarnessKinds
    <2>2. iters[r] + 1 \in Nat
      BY <1>1
    <2>3. turn \in Message
      BY <1>2, <2>2, MessageTypes
    <2> QED BY <2>1, <2>3, MessageTypes
  <1>5. resp' \in [Runs -> Response]
    <2>1. resp' = Set(resp, r, joined)
      BY DEF CompletionReturns
    <2> HIDE DEF joined
    <2> QED BY <1>3, <2>1, SetType DEF TypeOK
  <1>6. iters' \in [Runs -> Nat]
    <2>1. iters' = Set(iters, r, iters[r] + 1) /\ iters[r] + 1 \in Nat
      BY <1>1 DEF CompletionReturns
    <2> QED BY <2>1, SetType DEF TypeOK
  <1>7. usage' \in [Runs -> Nat] /\ spent' \in Nat /\ late' \in [Runs -> Nat]
        /\ latePasses' \in [Runs -> Nat]
    <2>1. Charge(r, "completion", cost)
      BY DEF CompletionReturns
    <2> QED BY <2>1, ChargeType
  <1> HIDE DEF turn, joined
  <1>8. hist' \in [Runs -> Seq(Message)]
    <2>1. ASSUME NEW turns \in Seq(Message), AppendTurns(r, turns)
          PROVE  hist' \in [Runs -> Seq(Message)]
      <3>1. hist[r] \o turns \in Seq(Message)
        BY <1>1, <2>1, ConcatProperties
      <3> QED BY <2>1, <3>1, SetType DEF AppendTurns, TypeOK
    <2>2. <<turn>> \in Seq(Message) /\ <<turn, UserTurn("continue", r)>> \in Seq(Message)
      BY <1>4
    <2>3. AppendTurns(r, <<turn>>) \/ AppendTurns(r, <<turn, UserTurn("continue", r)>>)
      BY DEF CompletionReturns, turn
    <2> QED BY <2>1, <2>2, <2>3
  <1>9. /\ pc' \in [Runs -> Labels] /\ half' \in [Runs -> {1, 2}]
        /\ retried' \in [Runs -> BOOLEAN]
        /\ trunc' \in [Runs -> TruncationReasons \cup {"none"}]
    <2>1. CASE continued
      BY <2>1 DEF CompletionReturns, Set, TypeOK
    <2>2. CASE ~continued
      <3>1. UNCHANGED <<half, retried>>
        BY <2>2 DEF CompletionReturns
      <3>2. CASE stage[r] = "main"
        <4>1. PICK label \in Labels : pc' = Set(pc, r, label)
          BY <2>2, <3>2 DEF CompletionReturns, Goto, Labels
        <4>2. UNCHANGED trunc
          BY <2>2, <3>2 DEF CompletionReturns
        <4>3. pc' \in [Runs -> Labels]
          BY <4>1, SetType DEF TypeOK
        <4> QED BY <3>1, <4>2, <4>3 DEF TypeOK
      <3>3. CASE stage[r] = "final"
        <4>1. pc' = Set(pc, r, "unwind") /\ trunc' = Set(trunc, r, why[r])
          BY <2>2, <3>3 DEF CompletionReturns, StopLoop, Goto
        <4>2. why[r] \in TruncationReasons \cup {"none"}
          BY <1>1 DEF TruncationReasons
        <4>3. "unwind" \in Labels
          BY DEF Labels
        <4>4. pc' \in [Runs -> Labels]
          BY <4>1, <4>3, SetType DEF TypeOK
        <4>5. trunc' \in [Runs -> TruncationReasons \cup {"none"}]
          BY <4>1, <4>2, SetType DEF TypeOK
        <4> QED BY <3>1, <4>4, <4>5 DEF TypeOK
      <3>4. CASE stage[r] = "repair"
        <4>1. PICK label \in Labels : pc' = Set(pc, r, label)
          BY <2>2, <3>4 DEF CompletionReturns, Goto, Labels
        <4>2. UNCHANGED trunc
          BY <2>2, <3>4 DEF CompletionReturns
        <4>3. pc' \in [Runs -> Labels]
          BY <4>1, SetType DEF TypeOK
        <4> QED BY <3>1, <4>2, <4>3 DEF TypeOK
      <3> QED BY <3>2, <3>3, <3>4 DEF TypeOK
    <2> QED BY <2>1, <2>2
  <1>10. UNCHANGED <<stage, parent, why, finalized, nudges, result, cancelled, turnKind,
                     queue, bound, delivered>>
    BY DEF CompletionReturns, steerVars
  <1> QED BY <1>5, <1>6, <1>7, <1>8, <1>9, <1>10 DEF TypeOK

\* A completion that fails, or is refused as too long and retried.
LEMMA CompletionFailureType ==
    ASSUME TypeOK, NEW r \in Runs,
           \/ CompletionFails(r) \/ OverflowStub(r)
           \/ \E cost \in Costs : OverflowSummary(r, cost) \/ OverflowGivesUp(r, cost)
    PROVE  TypeOK'
  <1> USE DEF steerVars, poolVars
  <1>1. CASE CompletionFails(r)
    <2>1. Fail(r, "error")
      BY <1>1 DEF CompletionFails
    <2>2. pc' \in [Runs -> Labels] /\ result' \in [Runs -> Results]
      BY <2>1, ControlType DEF Failures
    <2> QED BY <1>1, <2>2 DEF CompletionFails, TypeOK
  <1>2. CASE OverflowStub(r)
    <2>1. retried' \in [Runs -> BOOLEAN]
      BY <1>2 DEF OverflowStub, Set, TypeOK
    <2> QED BY <1>2, <2>1 DEF OverflowStub, TypeOK
  <1>3. ASSUME NEW cost \in Costs, OverflowSummary(r, cost) PROVE TypeOK'
    <2>1. retried' \in [Runs -> BOOLEAN]
      BY <1>3 DEF OverflowSummary, Set, TypeOK
    <2>2. hist[r] \in Seq(Message) /\ SummaryCut(hist[r]) # 0
      BY <1>3 DEF OverflowSummary, Summarizes, TypeOK
    <2>3. hist' = Set(hist, r, Summarized(hist[r], r)) /\ Charge(r, "compaction", cost)
      BY <1>3 DEF OverflowSummary
    <2>4. Summarized(hist[r], r) \in Seq(Message)
      BY <2>2, SummarizedShape
    <2>5. hist' \in [Runs -> Seq(Message)]
      BY <2>3, <2>4, SetType DEF TypeOK
    <2> QED BY <1>3, <2>1, <2>3, <2>5, ChargeType DEF OverflowSummary, TypeOK
  <1>4. ASSUME NEW cost \in Costs, OverflowGivesUp(r, cost) PROVE TypeOK'
    <2>1. Charge(r, "compaction", cost) /\ Fail(r, "error")
      BY <1>4 DEF OverflowGivesUp
    <2>2. pc' \in [Runs -> Labels] /\ result' \in [Runs -> Results]
      BY <2>1, ControlType DEF Failures
    <2> QED BY <1>4, <2>1, <2>2, ChargeType DEF OverflowGivesUp, TypeOK
  <1> QED BY <1>1, <1>2, <1>3, <1>4

\* The tool phase.
LEMMA ExecuteToolsType ==
    ASSUME TypeOK, NEW r \in Runs, NEW k \in 0..MaxCalls, ExecuteTools(r, k)
    PROVE  TypeOK'
  <1> DEFINE h == hist[r] \o ToolResults(r, iters[r], k)
  <1>1. h \in Seq(Message)
    <2>1. hist[r] \in Seq(Message) /\ iters[r] \in Nat /\ k \in Nat
      BY LimitsAssumption DEF TypeOK
    <2> QED BY <2>1, ToolResultsType, ConcatProperties
  <1>2. UNCHANGED <<parent, iters, usage, nudges, resp, cancelled, turnKind, queue, bound,
                    delivered, spent, late, latePasses>>
    BY DEF ExecuteTools, steerVars, poolVars
  <1>3. \/ /\ hist' = Set(hist, r, h) /\ Fail(r, "cancelled")
           /\ UNCHANGED <<stage, half, retried, why, trunc, finalized>>
        \/ FinalizeAndTruncate(r, "tokenBudget", h) /\ UNCHANGED result
        \/ /\ hist' = Set(hist, r, h) /\ Goto(r, "top")
           /\ UNCHANGED <<stage, half, retried, why, trunc, finalized, result>>
    BY DEF ExecuteTools
  <1> HIDE DEF h
  <1>4. CASE /\ hist' = Set(hist, r, h) /\ Fail(r, "cancelled")
             /\ UNCHANGED <<stage, half, retried, why, trunc, finalized>>
    <2>1. pc' \in [Runs -> Labels] /\ result' \in [Runs -> Results]
      BY <1>4, ControlType DEF Failures
    <2>2. hist' \in [Runs -> Seq(Message)]
      BY <1>1, <1>4, SetType DEF TypeOK
    <2> QED BY <1>2, <1>4, <2>1, <2>2 DEF TypeOK
  <1>5. CASE FinalizeAndTruncate(r, "tokenBudget", h) /\ UNCHANGED result
    <2>1. "tokenBudget" \in LimitReasons
      BY DEF LimitReasons
    <2> QED BY <1>1, <1>2, <1>5, <2>1, FinalizeType DEF TypeOK
  <1>6. CASE /\ hist' = Set(hist, r, h) /\ Goto(r, "top")
             /\ UNCHANGED <<stage, half, retried, why, trunc, finalized, result>>
    <2>1. pc' \in [Runs -> Labels]
      BY <1>6 DEF Goto, Set, TypeOK, Labels
    <2>2. hist' \in [Runs -> Seq(Message)]
      BY <1>1, <1>6, SetType DEF TypeOK
    <2> QED BY <1>2, <1>6, <2>1, <2>2 DEF TypeOK
  <1> QED BY <1>3, <1>4, <1>5, <1>6

\* A turn without tool calls.
LEMMA DecideType ==
    ASSUME TypeOK, NEW r \in Runs, Refused(r) \/ DrainAll(r) \/ FinishTurn(r)
    PROVE  TypeOK'
  <1> USE DEF steerVars, poolVars
  <1>1. CASE Refused(r)
    <2>1. Fail(r, "refused")
      BY <1>1 DEF Refused
    <2>2. pc' \in [Runs -> Labels] /\ result' \in [Runs -> Results]
      BY <2>1, ControlType DEF Failures
    <2> QED BY <1>1, <2>2 DEF Refused, TypeOK
  <1>2. CASE DrainAll(r)
    <2>1. pc' \in [Runs -> Labels]
      BY <1>2 DEF DrainAll, Goto, Set, TypeOK, Labels
    <2>2. Deliver(r, queue) /\ queue \in SUBSET queue
      BY <1>2 DEF DrainAll
    <2> QED BY <1>2, <2>1, <2>2, DeliverType DEF DrainAll, TypeOK
  <1>3. CASE FinishTurn(r)
    <2>1. UNCHANGED <<stage, half, retried, parent, iters, usage, why, finalized, resp, result,
                      cancelled, turnKind, queue, bound, delivered, spent, late, latePasses>>
      BY <1>3 DEF FinishTurn
    <2>2. ASSUME NEW reason \in TruncationReasons, StopLoop(r, reason), UNCHANGED <<hist, nudges>>
          PROVE  TypeOK'
      <3>1. pc' = Set(pc, r, "unwind") /\ trunc' = Set(trunc, r, reason)
        BY <2>2 DEF StopLoop, Goto
      <3>2. pc' \in [Runs -> Labels]
        BY <3>1 DEF Set, TypeOK, Labels
      <3>3. reason \in TruncationReasons \cup {"none"}
        OBVIOUS
      <3>4. trunc' \in [Runs -> TruncationReasons \cup {"none"}]
        BY <3>1, <3>3, SetType DEF TypeOK
      <3> QED BY <2>1, <2>2, <3>2, <3>4 DEF TypeOK
    <2>3. ASSUME nudges[r] < MaxEmptyTurnNudges, nudges' = Set(nudges, r, nudges[r] + 1),
                 Push(r, UserTurn("nudge", r)), Goto(r, "top"), UNCHANGED trunc
          PROVE  TypeOK'
      <3>1. "nudge" \in UserKinds /\ hist[r] \in Seq(Message)
        BY DEF UserKinds, HarnessKinds, TypeOK
      <3>2. Append(hist[r], UserTurn("nudge", r)) \in Seq(Message)
        BY <3>1, MessageTypes, PushType
      <3>3. hist' \in [Runs -> Seq(Message)]
        BY <2>3, <3>2, SetType DEF Push, TypeOK
      <3>4. pc' \in [Runs -> Labels]
        BY <2>3 DEF Goto, Set, TypeOK, Labels
      <3>5. nudges[r] + 1 \in 0..MaxEmptyTurnNudges
        <4>1. nudges[r] \in 0..2 /\ nudges[r] < 2
          BY <2>3 DEF TypeOK, MaxEmptyTurnNudges
        <4> QED BY <4>1 DEF MaxEmptyTurnNudges
      <3>6. nudges' \in [Runs -> 0..MaxEmptyTurnNudges]
        BY <2>3, <3>5, SetType DEF TypeOK
      <3> QED BY <2>1, <2>3, <3>3, <3>4, <3>6 DEF TypeOK
    <2>4. ASSUME Goto(r, "unwind"), UNCHANGED <<hist, nudges, trunc>>
          PROVE  TypeOK'
      <3>1. pc' \in [Runs -> Labels]
        BY <2>4 DEF Goto, Set, TypeOK, Labels
      <3> QED BY <2>1, <2>4, <3>1 DEF TypeOK
    <2>5. "outputCap" \in TruncationReasons /\ "noAnswer" \in TruncationReasons
      BY DEF TruncationReasons
    <2> QED BY <1>3, <2>2, <2>3, <2>4, <2>5 DEF FinishTurn
  <1> QED BY <1>1, <1>2, <1>3

\* The return of Runner.run, the parse of a RunJSON answer, and a panic.
LEMMA ReturnType ==
    ASSUME TypeOK, NEW r \in Runs, Unwind(r) \/ ParseAnswer(r) \/ HookPanics(r)
    PROVE  TypeOK'
  <1> USE DEF steerVars, poolVars
  <1>1. CASE Unwind(r)
    <2>1. PICK label \in Labels : pc' = Set(pc, r, label)
      BY <1>1 DEF Unwind, Goto, Labels
    <2>2. pc' \in [Runs -> Labels]
      BY <2>1, SetType DEF TypeOK
    <2>3. result' \in [Runs -> Results]
      <3>1. result[r] \in Results /\ "answer" \in Results /\ "incomplete" \in Results
        BY DEF TypeOK, Results
      <3>2. \/ result' = result
            \/ \E v \in Results : result' = Set(result, r, v)
        BY <1>1, <3>1 DEF Unwind
      <3>3. \A v \in Results : Set(result, r, v) \in [Runs -> Results]
        BY SetType DEF TypeOK
      <3> QED BY <3>2, <3>3 DEF TypeOK
    <2>4. bound' \in BOOLEAN
      BY <1>1 DEF Unwind
    <2> QED BY <1>1, <2>2, <2>3, <2>4 DEF Unwind, TypeOK
  <1>2. CASE ParseAnswer(r)
    <2>1. UNCHANGED <<hist, parent, iters, usage, why, trunc, finalized, nudges, resp, cancelled,
                      turnKind, queue, bound, delivered, spent, late, latePasses>>
      BY <1>2 DEF ParseAnswer
    <2>2. ASSUME NEW v \in Results, result' = Set(result, r, v), Goto(r, "done"),
                 UNCHANGED <<stage, half, retried>>
          PROVE  TypeOK'
      <3>1. pc' \in [Runs -> Labels]
        BY <2>2 DEF Goto, Set, TypeOK, Labels
      <3>2. result' \in [Runs -> Results]
        BY <2>2, SetType DEF TypeOK
      <3> QED BY <2>1, <2>2, <3>1, <3>2 DEF TypeOK
    <2>3. ASSUME BeginCompletion(r, "repair", "call"), UNCHANGED result
          PROVE  TypeOK'
      <3>1. "call" \in Labels
        BY DEF Labels
      <3> QED BY <2>1, <2>3, <3>1, ControlType DEF TypeOK
    <2>4. "answer" \in Results /\ "unparseable" \in Results
      BY DEF Results
    <2> QED BY <1>2, <2>2, <2>3, <2>4 DEF ParseAnswer
  <1>3. CASE HookPanics(r)
    <2>1. Fail(r, "panic")
      BY <1>3 DEF HookPanics
    <2>2. pc' \in [Runs -> Labels] /\ result' \in [Runs -> Results]
      BY <2>1, ControlType DEF Failures
    <2> QED BY <1>3, <2>2 DEF HookPanics, TypeOK
  <1> QED BY <1>1, <1>2, <1>3

\* The caller's cancellation, the producers on the handle, the host's charges.
LEMMA EnvironmentType ==
    ASSUME TypeOK,
           \/ \E r \in Runs : Cancel(r)
           \/ \E kind \in TurnKinds : Enqueue(kind)
           \/ \E cost \in Costs : AddSpend(cost)
    PROVE  TypeOK'
  <1> USE DEF runVars, steerVars, poolVars
  <1>1. ASSUME NEW r \in Runs, Cancel(r) PROVE TypeOK'
    <2>1. cancelled' \in [Runs -> BOOLEAN]
      BY <1>1 DEF Cancel, Set, TypeOK
    <2> QED BY <1>1, <2>1 DEF Cancel, TypeOK
  <1>2. ASSUME NEW kind \in TurnKinds, Enqueue(kind) PROVE TypeOK'
    <2>1. turnKind' \in Seq(TurnKinds) /\ Len(turnKind') = Len(turnKind) + 1
      BY <1>2, AppendProperties DEF Enqueue, TypeOK
    <2>2. Len(turnKind) \in Nat
      BY LenProperties DEF TypeOK
    <2>3. queue' \subseteq 1..Len(turnKind')
      <3>1. queue' = queue \cup {Len(turnKind) + 1} /\ queue \subseteq 1..Len(turnKind)
        BY <1>2 DEF Enqueue, TypeOK
      <3>2. /\ 1..Len(turnKind) \subseteq 1..(Len(turnKind) + 1)
            /\ Len(turnKind) + 1 \in 1..(Len(turnKind) + 1)
        BY <2>2
      <3>3. queue' \subseteq 1..(Len(turnKind) + 1)
        BY <3>1, <3>2
      <3> QED BY <2>1, <3>3
    <2> QED BY <1>2, <2>1, <2>3 DEF Enqueue, TypeOK
  <1>3. ASSUME NEW cost \in Costs, AddSpend(cost) PROVE TypeOK'
    <2>1. spent' \in Nat
      BY <1>3, LimitsAssumption DEF AddSpend, TypeOK
    <2> QED BY <1>3, <2>1 DEF AddSpend, TypeOK
  <1> QED BY <1>1, <1>2, <1>3

(***************************************************************************)
(* The loop keeps its types whatever the limits are and however many runs  *)
(* share the handle and the pool: in particular every append, trim and     *)
(* summary leaves a sequence of messages, and a run never counts more than *)
(* maxEmptyTurnNudges nudges.                                              *)
(***************************************************************************)
THEOREM TypeCorrect == Spec => []TypeOK
  <1>1. Init => TypeOK
    <2> SUFFICES ASSUME Init PROVE TypeOK
      OBVIOUS
    <2>1. /\ NoResponse \in Response /\ "idle" \in Labels /\ "none" \in Results
          /\ 0 \in 0..MaxEmptyTurnNudges
      BY DEF NoResponse, Response, Labels, Results, MaxEmptyTurnNudges
    <2>2. /\ <<>> \in Seq(Message) /\ <<>> \in Seq(TurnKinds)
          /\ <<>> \in Seq([run : Runs, turns : SUBSET Nat])
      BY EmptySeq
    <2>3. hist \in [Runs -> Seq(Message)] /\ resp \in [Runs -> Response]
      BY <2>1, <2>2 DEF Init
    <2>4. pc \in [Runs -> Labels] /\ result \in [Runs -> Results]
      BY <2>1 DEF Init
    <2>5. nudges \in [Runs -> 0..MaxEmptyTurnNudges]
      BY <2>1 DEF Init
    <2>6. queue \subseteq 1..Len(turnKind)
      BY DEF Init
    <2> QED BY <2>2, <2>3, <2>4, <2>5, <2>6 DEF Init, TypeOK
  <1>2. TypeOK /\ [Next]_vars => TypeOK'
    <2> SUFFICES ASSUME TypeOK, [Next]_vars PROVE TypeOK'
      OBVIOUS
    <2>1. ASSUME NEW r \in Runs, RunStep(r) PROVE TypeOK'
      <3>1. CASE CheckLimits(r)
        BY <3>1, CheckLimitsType
      <3>2. CASE Boundary(r)
        BY <3>2, BoundaryType
      <3>3. CASE Compact(r)
        BY <3>3, CompactType
      <3>4. CASE Complete(r)
        BY <3>4, CompletionReturnsType, CompletionFailureType DEF Complete
      <3>5. CASE \E k \in 0..MaxCalls : ExecuteTools(r, k)
        BY <3>5, ExecuteToolsType
      <3>6. CASE Refused(r) \/ DrainAll(r) \/ FinishTurn(r)
        BY <3>6, DecideType
      <3>7. CASE Unwind(r) \/ ParseAnswer(r) \/ HookPanics(r)
        BY <3>7, ReturnType
      <3> QED BY <2>1, <3>1, <3>2, <3>3, <3>4, <3>5, <3>6, <3>7 DEF RunStep
    <2>2. ASSUME NEW r \in Runs, NEW p \in Runs \cup {NoRun}, Start(r, p) PROVE TypeOK'
      BY <2>2, StartType
    <2>3. CASE \/ \E r \in Runs : Cancel(r)
               \/ \E kind \in TurnKinds : Enqueue(kind)
               \/ \E cost \in Costs : AddSpend(cost)
      BY <2>3, EnvironmentType
    <2>4. CASE AllDone \/ UNCHANGED vars
      BY <2>4 DEF AllDone, vars, runVars, steerVars, poolVars, TypeOK
    <2> QED BY <2>1, <2>2, <2>3, <2>4 DEF Next
  <1> QED BY <1>1, <1>2, PTL DEF Spec

----------------------------------------------------------------------------
\* What one step of a run does to the accounts of the runs.

\* The other runs' control and accounts are not touched.
Rest(r) ==
    \A q \in Runs \ {r} :
        /\ pc'[q] = pc[q] /\ stage'[q] = stage[q] /\ half'[q] = half[q]
        /\ retried'[q] = retried[q]
        /\ iters'[q] = iters[q] /\ late'[q] = late[q] /\ latePasses'[q] = latePasses[q]

\* The step's completions and passes are paid for out of what was left.
Pays(r) ==
    /\ iters'[r] + Left(r)' <= iters[r] + Left(r)
    /\ late'[r] + Left(r)' <= late[r] + Left(r)
    /\ late'[r] = late[r] \/ Exhausted
    /\ latePasses'[r] + Passes(r)' <= latePasses[r] + Passes(r)
    /\ latePasses'[r] = latePasses[r] \/ Exhausted

\* The step passes the limit checks at the top of the loop.
Admitted(r) ==
    /\ LimitReason(r) = "none"
    /\ pc[r] = "top" /\ pc'[r] = "boundary"
    /\ stage'[r] = stage[r] /\ iters'[r] = iters[r] /\ late'[r] = late[r]
    /\ latePasses'[r] = latePasses[r]

Effect(r) == Rest(r) /\ StageOK(r)' /\ (Pays(r) \/ Admitted(r)) /\ spent' >= spent

\* The part of TypeOK that the accounts need.
AccountTypes ==
    /\ pc \in [Runs -> Labels]
    /\ stage \in [Runs -> {"main", "final", "repair"}]
    /\ half \in [Runs -> {1, 2}]
    /\ iters \in [Runs -> Nat]
    /\ late \in [Runs -> Nat]
    /\ latePasses \in [Runs -> Nat]
    /\ retried \in [Runs -> BOOLEAN]
    /\ spent \in Nat

\* What is left is a number.
LEMMA LeftType ==
    ASSUME AccountTypes, NEW r \in Runs
    PROVE  Left(r) \in Nat /\ Passes(r) \in Nat
  <1>1. half[r] \in {1, 2} /\ retried[r] \in BOOLEAN
    BY DEF AccountTypes
  <1>2. CallsLeft(r) \in Nat /\ PassesLeft(r) \in Nat
    BY <1>1 DEF CallsLeft, PassesLeft
  <1> QED BY <1>2 DEF Left, LaterLeft, Passes, LaterPasses

\* Moves that stay in their stage and half: labels from which less is left.
LEMMA GotoEffect ==
    ASSUME AccountTypes, NEW r \in Runs, StageOK(r), NEW label,
           pc[r] # "done", Goto(r, label),
           UNCHANGED <<stage, half, retried, iters, late, latePasses, spent>>,
           \/ label \in {"unwind", "done"} /\ stage[r] # "repair"
           \/ label = "done"
           \/ label = "top" /\ stage[r] = "main"
           \/ label = "call" /\ pc[r] = "compact"
           \/ label = "parse" /\ pc[r] = "unwind" /\ r \in JSONRuns
    PROVE  Effect(r)
  <1>1. pc'[r] = label /\ stage'[r] = stage[r] /\ half'[r] = half[r]
    BY DEF Goto, Set, AccountTypes
  <1>2. /\ pc[r] \in Labels /\ stage[r] \in {"main", "final", "repair"} /\ half[r] \in {1, 2}
        /\ iters[r] \in Nat /\ late[r] \in Nat /\ latePasses[r] \in Nat
        /\ retried[r] \in BOOLEAN
    BY DEF AccountTypes
  <1>3. Rest(r)
    BY DEF Rest, Goto, Set, AccountTypes
  <1>4. StageOK(r)'
    BY <1>1, <1>2 DEF StageOK
  <1>5. Left(r)' <= Left(r) /\ Left(r) \in Nat /\ Left(r)' \in Nat
    <2>1. LaterLeft(r)' <= LaterLeft(r) /\ LaterLeft(r) \in Nat /\ LaterLeft(r)' \in Nat
      BY <1>1, <1>2 DEF LaterLeft
    <2>2. CASE label = "call" /\ pc[r] = "compact"
      BY <1>1, <1>2, <2>1, <2>2 DEF Left, CallsLeft, StageOK
    <2>3. CASE label # "call"
      <3>1. CallsLeft(r)' = 0
        BY <1>1, <2>3 DEF CallsLeft
      <3>2. CallsLeft(r) \in Nat
        BY <1>2 DEF CallsLeft
      <3> QED BY <2>1, <3>1, <3>2 DEF Left
    <2> QED BY <2>2, <2>3
  <1>6. Passes(r)' <= Passes(r) /\ Passes(r) \in Nat /\ Passes(r)' \in Nat
    <2>1. LaterPasses(r)' <= LaterPasses(r) /\ LaterPasses(r) \in Nat /\ LaterPasses(r)' \in Nat
      BY <1>1, <1>2 DEF LaterPasses
    <2>2. PassesLeft(r)' <= PassesLeft(r) /\ PassesLeft(r) \in Nat /\ PassesLeft(r)' \in Nat
      <3>1. CASE label = "call" /\ pc[r] = "compact"
        BY <1>1, <1>2, <3>1 DEF PassesLeft, StageOK
      <3>2. CASE label # "call"
        BY <1>1, <1>2, <3>2 DEF PassesLeft
      <3> QED BY <3>1, <3>2
    <2> QED BY <2>1, <2>2 DEF Passes
  <1>7. Pays(r)
    BY <1>2, <1>5, <1>6 DEF Pays
  <1>8. spent' >= spent
    BY DEF AccountTypes
  <1> QED BY <1>3, <1>4, <1>7, <1>8 DEF Effect

\* Fail leaves the loop, or the repair.
LEMMA FailEffect ==
    ASSUME AccountTypes, NEW r \in Runs, StageOK(r), NEW failure,
           pc[r] # "done", Fail(r, failure),
           UNCHANGED <<stage, half, retried, iters, late, latePasses, spent>>
    PROVE  Effect(r)
  <1>1. CASE stage[r] = "repair"
    BY <1>1, GotoEffect DEF Fail
  <1>2. CASE stage[r] # "repair"
    BY <1>2, GotoEffect DEF Fail
  <1> QED BY <1>1, <1>2

\* completeOnce is entered: for a turn, for the finalization or for the repair.
LEMMA BeginEffect ==
    ASSUME AccountTypes, NEW r \in Runs, StageOK(r), NEW s, NEW label,
           BeginCompletion(r, s, label), UNCHANGED <<iters, late, latePasses, spent>>,
           \/ s = "main" /\ label = "compact" /\ pc[r] = "boundary"
           \/ s = "final" /\ label = "compact" /\ r \in JSONRuns /\ pc[r] \in {"top", "tools"}
           \/ s = "repair" /\ label = "call" /\ pc[r] = "parse" /\ stage[r] # "repair"
    PROVE  Effect(r)
  <1>1. pc'[r] = label /\ stage'[r] = s /\ half'[r] = 1
    BY DEF BeginCompletion, Goto, Set, AccountTypes
  <1>2. /\ pc[r] \in Labels /\ stage[r] \in {"main", "final", "repair"} /\ half[r] \in {1, 2}
        /\ iters[r] \in Nat /\ late[r] \in Nat /\ latePasses[r] \in Nat
        /\ retried[r] \in BOOLEAN
    BY DEF AccountTypes
  <1>3. Rest(r)
    BY DEF Rest, BeginCompletion, Goto, Set, AccountTypes
  <1>4. StageOK(r)'
    BY <1>1, <1>2 DEF StageOK
  <1>5. Left(r)' <= Left(r) /\ Left(r) \in Nat /\ Left(r)' \in Nat
    BY <1>1, <1>2 DEF Left, CallsLeft, LaterLeft, StageOK
  <1>6. Passes(r)' <= Passes(r) /\ Passes(r) \in Nat /\ Passes(r)' \in Nat
    BY <1>1, <1>2 DEF Passes, PassesLeft, LaterPasses, StageOK
  <1>7. Pays(r)
    BY <1>2, <1>5, <1>6 DEF Pays
  <1>8. spent' >= spent
    BY DEF AccountTypes
  <1> QED BY <1>3, <1>4, <1>7, <1>8 DEF Effect

\* finalizeAndTruncate.
LEMMA FinalizeEffect ==
    ASSUME AccountTypes, NEW r \in Runs, StageOK(r), NEW reason, NEW h,
           pc[r] \in {"top", "tools"}, FinalizeAndTruncate(r, reason, h),
           UNCHANGED <<iters, late, latePasses, spent>>
    PROVE  Effect(r)
  <1>1. CASE r \notin JSONRuns \/ finalized[r]
    <2>1. Goto(r, "unwind") /\ UNCHANGED <<stage, half, retried>>
      BY <1>1 DEF FinalizeAndTruncate, StopLoop
    <2>2. stage[r] # "repair"
      BY DEF StageOK
    <2> QED BY <2>1, <2>2, GotoEffect
  <1>2. CASE ~(r \notin JSONRuns \/ finalized[r])
    <2>1. BeginCompletion(r, "final", "compact")
      BY <1>2 DEF FinalizeAndTruncate
    <2> QED BY <1>2, <2>1, BeginEffect
  <1> QED BY <1>1, <1>2

\* A summarizing pass is no completion; on an exhausted pool it is counted for itself.
LEMMA CompactionCharge ==
    ASSUME AccountTypes, NEW r \in Runs, NEW cost \in Costs, Charge(r, "compaction", cost)
    PROVE  /\ late' = late /\ spent' \in Nat /\ spent' >= spent
           /\ \A q \in Runs \ {r} : latePasses'[q] = latePasses[q]
           /\ \/ latePasses'[r] = latePasses[r]
              \/ latePasses'[r] = latePasses[r] + 1 /\ Exhausted
  <1>1. late' = late
    BY DEF Charge, Set, AccountTypes
  <1>2. spent' \in Nat /\ spent' >= spent
    BY LimitsAssumption DEF Charge, AccountTypes
  <1>3. /\ \A q \in Runs \ {r} : latePasses'[q] = latePasses[q]
        /\ \/ latePasses'[r] = latePasses[r]
           \/ latePasses'[r] = latePasses[r] + 1 /\ Exhausted
    <2>1. \/ latePasses' = Set(latePasses, r, latePasses[r])
          \/ latePasses' = Set(latePasses, r, latePasses[r] + 1) /\ Exhausted
      BY DEF Charge
    <2> QED BY <2>1 DEF Set, AccountTypes
  <1> QED BY <1>1, <1>2, <1>3

\* A summarizing pass costs one of those left.
LEMMA CompactionEffect ==
    ASSUME AccountTypes, NEW r \in Runs, StageOK(r), NEW cost \in Costs,
           Charge(r, "compaction", cost), UNCHANGED <<stage, half, iters>>, stage[r] # "repair",
           \/ pc[r] = "compact" /\ Goto(r, "call") /\ UNCHANGED retried
           \/ /\ pc[r] = "compact" \/ (pc[r] = "call" /\ ~retried[r])
              /\ (\E failure : Fail(r, failure)) /\ UNCHANGED retried
           \/ pc[r] = "call" /\ ~retried[r] /\ UNCHANGED pc /\ retried' = Set(retried, r, TRUE)
    PROVE  Effect(r)
  <1>1. PICK label : /\ pc'[r] = label /\ stage'[r] = stage[r] /\ half'[r] = half[r]
                     /\ \/ pc[r] = "compact" /\ label = "call"
                        \/ /\ pc[r] = "compact" \/ (pc[r] = "call" /\ ~retried[r])
                           /\ label = "unwind"
                        \/ pc[r] = "call" /\ label = "call" /\ ~retried[r] /\ retried'[r]
    BY DEF Goto, Fail, Set, AccountTypes
  <1>2. /\ pc[r] \in Labels /\ stage[r] \in {"main", "final", "repair"} /\ half[r] \in {1, 2}
        /\ iters[r] \in Nat /\ late[r] \in Nat /\ latePasses[r] \in Nat
        /\ retried[r] \in BOOLEAN
    BY DEF AccountTypes
  <1>3. /\ late' = late /\ spent' >= spent
        /\ \A q \in Runs \ {r} : latePasses'[q] = latePasses[q]
        /\ \/ latePasses'[r] = latePasses[r]
           \/ latePasses'[r] = latePasses[r] + 1 /\ Exhausted
    BY CompactionCharge
  <1>4. Rest(r)
    BY <1>3 DEF Rest, Goto, Fail, Set, AccountTypes
  <1>5. StageOK(r)'
    BY <1>1, <1>2 DEF StageOK
  <1>6. Left(r)' <= Left(r) /\ Left(r) \in Nat /\ Left(r)' \in Nat
    BY <1>1, <1>2 DEF Left, CallsLeft, LaterLeft, StageOK
  <1>7. Passes(r)' + 1 <= Passes(r) /\ Passes(r) \in Nat /\ Passes(r)' \in Nat
    <2>1. LaterPasses(r)' = LaterPasses(r) /\ LaterPasses(r) \in Nat
      BY <1>1, <1>2 DEF LaterPasses
    <2>2. /\ PassesLeft(r)' + 1 <= PassesLeft(r)
          /\ PassesLeft(r) \in Nat /\ PassesLeft(r)' \in Nat
      <3>1. CASE pc[r] = "compact"
        <4>1. half[r] = 1 /\ PassesLeft(r) = 3
          BY <3>1 DEF StageOK, PassesLeft
        <4>2. PassesLeft(r)' \in {0, 1, 2}
          BY <1>1, <3>1, <4>1 DEF PassesLeft
        <4> QED BY <4>1, <4>2
      <3>2. CASE pc[r] = "call" /\ ~retried[r]
        <4>1. PassesLeft(r) = 3 - half[r]
          BY <3>2 DEF PassesLeft
        <4>2. PassesLeft(r)' = 0 \/ PassesLeft(r)' = 2 - half[r]
          BY <1>1, <3>2 DEF PassesLeft
        <4>3. CASE half[r] = 1
          BY <4>1, <4>2, <4>3
        <4>4. CASE half[r] = 2
          BY <4>1, <4>2, <4>4
        <4> QED BY <1>2, <4>3, <4>4
      <3> QED BY <1>1, <3>1, <3>2
    <2> QED BY <2>1, <2>2 DEF Passes
  <1>8. Pays(r)
    BY <1>2, <1>3, <1>6, <1>7 DEF Pays
  <1> QED BY <1>3, <1>4, <1>5, <1>8 DEF Effect

\* A completion costs one of those left.
LEMMA CompletionEffect ==
    ASSUME AccountTypes, NEW r \in Runs, StageOK(r), NEW answer \in Responses,
           NEW cost \in Costs, CompletionReturns(r, answer, cost)
    PROVE  Effect(r)
  <1>1. /\ pc[r] = "call" /\ stage[r] \in {"main", "final", "repair"} /\ half[r] \in {1, 2}
        /\ iters[r] \in Nat /\ late[r] \in Nat /\ latePasses[r] \in Nat
        /\ retried[r] \in BOOLEAN
    BY DEF CompletionReturns, AccountTypes
  <1>2. PICK label, h :
          /\ pc' = Set(pc, r, label) /\ half' = Set(half, r, h) /\ stage' = stage
          /\ \A q \in Runs \ {r} : retried'[q] = retried[q]
          /\ \/ label = "call" /\ half[r] = 1 /\ h = 2
             \/ label \in {"decide", "tools"} /\ stage[r] = "main" /\ h = half[r]
             \/ label = "unwind" /\ stage[r] = "final" /\ h = half[r]
             \/ label = "parse" /\ stage[r] = "repair" /\ h = half[r]
    <2>1. UNCHANGED stage
      BY DEF CompletionReturns
    <2>2. CASE half[r] = 1 /\ answer.stop = "max" /\ answer.calls = 0
      <3>1. half' = Set(half, r, 2) /\ pc' = pc /\ retried' = Set(retried, r, FALSE)
        BY <2>2 DEF CompletionReturns
      <3>3. \A q \in Runs \ {r} : retried'[q] = retried[q]
        BY <3>1 DEF Set, AccountTypes
      <3>2. pc = Set(pc, r, "call")
        BY <1>1 DEF Set, AccountTypes
      <3> QED BY <2>1, <2>2, <3>1, <3>2, <3>3
    <2>3. CASE ~(half[r] = 1 /\ answer.stop = "max" /\ answer.calls = 0)
      <3>1. half' = half /\ half = Set(half, r, half[r]) /\ retried' = retried
        BY <2>3 DEF CompletionReturns, Set, AccountTypes
      <3>2. \/ stage[r] = "main" /\ Goto(r, IF answer.calls = 0 THEN "decide" ELSE "tools")
            \/ stage[r] = "final" /\ StopLoop(r, why[r])
            \/ stage[r] = "repair" /\ Goto(r, "parse")
        BY <2>3 DEF CompletionReturns
      <3> QED BY <2>1, <3>1, <3>2 DEF Goto, StopLoop
    <2> QED BY <2>2, <2>3
  <1>3. pc'[r] = label /\ stage'[r] = stage[r] /\ half'[r] = h
    BY <1>2 DEF Set, AccountTypes
  <1>4. iters' = Set(iters, r, iters[r] + 1) /\ iters'[r] = iters[r] + 1
    BY DEF CompletionReturns, Set, AccountTypes
  <1>5. /\ \/ late' = late
           \/ late' = Set(late, r, late[r] + 1) /\ late'[r] = late[r] + 1 /\ Exhausted
        /\ latePasses' = latePasses
        /\ spent' >= spent
    <2>1. Charge(r, "completion", cost)
      BY DEF CompletionReturns
    <2>2. spent' >= spent
      BY <2>1, LimitsAssumption DEF Charge, AccountTypes
    <2>3. late' = Set(late, r, late[r]) \/ (late' = Set(late, r, late[r] + 1) /\ Exhausted)
      BY <2>1 DEF Charge
    <2>4. latePasses' = Set(latePasses, r, latePasses[r])
      BY <2>1 DEF Charge
    <2> QED BY <2>2, <2>3, <2>4 DEF Set, AccountTypes
  <1>6. Rest(r)
    BY <1>2, <1>4, <1>5 DEF Rest, Set, AccountTypes
  <1>7. StageOK(r)'
    BY <1>1, <1>2, <1>3 DEF StageOK
  <1>8. Left(r)' + 1 <= Left(r) /\ Left(r) \in Nat /\ Left(r)' \in Nat
    <2>1. LaterLeft(r)' = LaterLeft(r) /\ LaterLeft(r) \in Nat
      BY <1>1, <1>2, <1>3 DEF LaterLeft
    <2>2. CallsLeft(r) = 3 - half[r]
      BY <1>1 DEF CallsLeft
    <2>3. CallsLeft(r)' = IF label = "call" THEN 1 ELSE 0
      BY <1>2, <1>3 DEF CallsLeft
    <2> QED BY <1>1, <1>2, <2>1, <2>2, <2>3 DEF Left
  <1>9. Passes(r)' <= Passes(r) /\ Passes(r) \in Nat /\ Passes(r)' \in Nat
    <2>1. LaterPasses(r)' = LaterPasses(r) /\ LaterPasses(r) \in Nat
      BY <1>1, <1>2, <1>3 DEF LaterPasses
    <2>2. CASE stage[r] = "repair"
      BY <1>3, <2>1, <2>2 DEF Passes, PassesLeft
    <2>3. CASE stage[r] # "repair"
      <3>1. PassesLeft(r) \in {2 - half[r], 3 - half[r]} /\ PassesLeft(r) \in Nat
        BY <1>1, <2>3 DEF PassesLeft
      <3>2. PassesLeft(r)' = 0 \/ (half[r] = 1 /\ PassesLeft(r)' \in {0, 1})
        BY <1>2, <1>3, <2>3 DEF PassesLeft
      <3> QED BY <1>1, <2>1, <3>1, <3>2 DEF Passes
    <2> QED BY <2>2, <2>3
  <1>10. Pays(r)
    BY <1>1, <1>4, <1>5, <1>8, <1>9 DEF Pays
  <1> QED BY <1>5, <1>6, <1>7, <1>10 DEF Effect

\* Every step of a run is paid for, or passes the limit checks.
LEMMA RunStepEffect ==
    ASSUME AccountTypes, NEW r \in Runs, StageOK(r), RunStep(r)
    PROVE  Effect(r)
  <1> USE DEF poolVars
  <1>1. CASE CheckLimits(r)
    <2>1. CASE LimitReason(r) = "none"
      <3>1. /\ pc[r] = "top" /\ Goto(r, "boundary")
            /\ UNCHANGED <<stage, half, retried, iters, late, latePasses, spent>>
        BY <1>1, <2>1 DEF CheckLimits
      <3>2. pc'[r] = "boundary"
        BY <3>1 DEF Goto, Set, AccountTypes
      <3>3. Rest(r)
        BY <3>1 DEF Rest, Goto, Set, AccountTypes
      <3>4. StageOK(r)'
        BY <3>1, <3>2 DEF StageOK
      <3>5. spent' >= spent
        BY <3>1 DEF AccountTypes
      <3> QED BY <2>1, <3>1, <3>2, <3>3, <3>4, <3>5 DEF Effect, Admitted
    <2>2. CASE LimitReason(r) # "none"
      <3>1. /\ pc[r] = "top" /\ UNCHANGED <<iters, late, latePasses, spent>>
            /\ FinalizeAndTruncate(r, LimitReason(r), hist[r])
        BY <1>1, <2>2 DEF CheckLimits
      <3> QED BY <3>1, FinalizeEffect
    <2> QED BY <2>1, <2>2
  <1>2. CASE Boundary(r)
    <2>1. pc[r] = "boundary" /\ UNCHANGED <<iters, late, latePasses, spent>>
      BY <1>2 DEF Boundary
    <2>2. CASE cancelled[r]
      <3>1. Fail(r, "cancelled") /\ UNCHANGED <<stage, half, retried>>
        BY <1>2, <2>2 DEF Boundary
      <3> QED BY <2>1, <3>1, FailEffect
    <2>3. CASE ~cancelled[r]
      <3>1. BeginCompletion(r, "main", "compact")
        BY <1>2, <2>3 DEF Boundary
      <3> QED BY <2>1, <3>1, BeginEffect
    <2> QED BY <2>2, <2>3
  <1>3. CASE Compact(r)
    <2>1. CASE CompactFree(r)
      BY <2>1, GotoEffect DEF CompactFree
    <2>2. ASSUME NEW cost \in Costs, CompactSummary(r, cost) PROVE Effect(r)
      BY <2>2, CompactionEffect DEF CompactSummary, Summarizes
    <2>3. ASSUME NEW cost \in Costs, CompactFail(r, cost) PROVE Effect(r)
      <3>1. /\ pc[r] = "compact" /\ Charge(r, "compaction", cost) /\ Fail(r, "error")
            /\ UNCHANGED <<stage, half, retried, iters>> /\ stage[r] # "repair"
        BY <2>3 DEF CompactFail, Summarizes
      <3>2. \E failure : Fail(r, failure)
        BY <3>1
      <3> QED BY <3>1, <3>2, CompactionEffect
    <2> QED BY <1>3, <2>1, <2>2, <2>3 DEF Compact
  <1>4. CASE Complete(r)
    <2>1. ASSUME NEW answer \in Responses, NEW cost \in Costs, CompletionReturns(r, answer, cost)
          PROVE  Effect(r)
      BY <2>1, CompletionEffect
    <2>2. CASE CompletionFails(r)
      BY <2>2, FailEffect DEF CompletionFails
    <2>3. CASE OverflowStub(r)
      <3>1. /\ UNCHANGED <<pc, stage, half, iters, late, latePasses, spent>>
            /\ pc[r] = "call" /\ ~retried[r] /\ retried' = Set(retried, r, TRUE)
        BY <2>3 DEF OverflowStub, Overflows
      <3>2. retried'[r] /\ \A q \in Runs \ {r} : retried'[q] = retried[q]
        BY <3>1 DEF Set, AccountTypes
      <3>3. Rest(r) /\ StageOK(r)' /\ spent' >= spent
        <4>1. Rest(r)
          BY <3>1, <3>2 DEF Rest
        <4>2. StageOK(r)'
          BY <3>1 DEF StageOK
        <4>3. spent' >= spent
          BY <3>1 DEF AccountTypes
        <4> QED BY <4>1, <4>2, <4>3
      <3>4. Left(r)' = Left(r) /\ Left(r) \in Nat
        BY <3>1, LeftType DEF Left, CallsLeft, LaterLeft
      <3>5. Passes(r)' <= Passes(r) /\ Passes(r) \in Nat /\ Passes(r)' \in Nat
        <4>1. half[r] \in {1, 2}
          BY DEF AccountTypes
        <4> QED BY <3>1, <3>2, <4>1 DEF Passes, PassesLeft, LaterPasses
      <3>6. Pays(r)
        BY <3>1, <3>4, <3>5 DEF Pays, AccountTypes
      <3> QED BY <3>3, <3>6 DEF Effect
    <2>4. ASSUME NEW cost \in Costs, OverflowSummary(r, cost) PROVE Effect(r)
      BY <2>4, CompactionEffect DEF OverflowSummary, Overflows, Summarizes
    <2>5. ASSUME NEW cost \in Costs, OverflowGivesUp(r, cost) PROVE Effect(r)
      <3>1. /\ pc[r] = "call" /\ ~retried[r]
            /\ Charge(r, "compaction", cost) /\ Fail(r, "error")
            /\ UNCHANGED <<stage, half, retried, iters>> /\ stage[r] # "repair"
        BY <2>5 DEF OverflowGivesUp, Overflows, Summarizes
      <3>2. \E failure : Fail(r, failure)
        BY <3>1
      <3> QED BY <3>1, <3>2, CompactionEffect
    <2> QED BY <1>4, <2>1, <2>2, <2>3, <2>4, <2>5 DEF Complete
  <1>5. ASSUME NEW k \in 0..MaxCalls, ExecuteTools(r, k) PROVE Effect(r)
    <2> DEFINE h == hist[r] \o ToolResults(r, iters[r], k)
    <2>1. /\ pc[r] = "tools" /\ UNCHANGED <<iters, late, latePasses, spent>>
          /\ \/ Fail(r, "cancelled") /\ UNCHANGED <<stage, half, retried>>
             \/ FinalizeAndTruncate(r, "tokenBudget", h)
             \/ Goto(r, "top") /\ UNCHANGED <<stage, half, retried>>
      BY <1>5 DEF ExecuteTools
    <2> HIDE DEF h
    <2>2. stage[r] = "main"
      BY <2>1 DEF StageOK, AccountTypes
    <2> QED BY <2>1, <2>2, FailEffect, FinalizeEffect, GotoEffect
  <1>6. CASE Refused(r)
    BY <1>6, FailEffect DEF Refused
  <1>7. CASE DrainAll(r) \/ FinishTurn(r)
    <2>1. /\ pc[r] = "decide"
          /\ UNCHANGED <<stage, half, retried, iters, late, latePasses, spent>>
          /\ Goto(r, "top") \/ Goto(r, "unwind")
      BY <1>7 DEF DrainAll, FinishTurn, StopLoop
    <2>2. stage[r] = "main"
      BY <2>1 DEF StageOK, AccountTypes
    <2> QED BY <2>1, <2>2, GotoEffect
  <1>8. CASE Unwind(r)
    <2>1. /\ pc[r] = "unwind"
          /\ UNCHANGED <<stage, half, retried, iters, late, latePasses, spent>>
          /\ (Goto(r, "parse") /\ r \in JSONRuns) \/ Goto(r, "done")
      BY <1>8 DEF Unwind
    <2> QED BY <2>1, GotoEffect
  <1>9. CASE ParseAnswer(r)
    <2>1. /\ pc[r] = "parse" /\ UNCHANGED <<iters, late, latePasses, spent>>
          /\ \/ Goto(r, "done") /\ UNCHANGED <<stage, half, retried>>
             \/ stage[r] # "repair" /\ BeginCompletion(r, "repair", "call")
      BY <1>9 DEF ParseAnswer
    <2> QED BY <2>1, GotoEffect, BeginEffect
  <1>10. CASE HookPanics(r)
    BY <1>10, FailEffect DEF HookPanics
  <1> QED BY <1>1, <1>2, <1>3, <1>4, <1>5, <1>6, <1>7, <1>8, <1>9, <1>10 DEF RunStep

\* A paid step keeps the accounts of all runs.
LEMMA EffectKeepsAccounts ==
    ASSUME AccountTypes, AccountTypes', Accounts, NEW r \in Runs, Effect(r)
    PROVE  Accounts'
  <1> SUFFICES ASSUME NEW q \in Runs
               PROVE  /\ StageOK(q)'
                      /\ MaxIterations >= 0 => iters'[q] + Left(q)' <=
                            MaxIterations + (IF q \in JSONRuns THEN 5 ELSE 1)
                      /\ late'[q] + Left(q)' <= IF q \in JSONRuns THEN 6 ELSE 2
                      /\ latePasses'[q] + Passes(q)' <= IF q \in JSONRuns THEN 6 ELSE 3
                      /\ late'[q] > 0 \/ latePasses'[q] > 0 => Exhausted'
    BY DEF Accounts
  <1>1. /\ StageOK(q)
        /\ MaxIterations >= 0 =>
              iters[q] + Left(q) <= MaxIterations + (IF q \in JSONRuns THEN 5 ELSE 1)
        /\ late[q] + Left(q) <= IF q \in JSONRuns THEN 6 ELSE 2
        /\ latePasses[q] + Passes(q) <= IF q \in JSONRuns THEN 6 ELSE 3
        /\ late[q] > 0 \/ latePasses[q] > 0 => Exhausted
    BY DEF Accounts
  <1>2. /\ iters[q] \in Nat /\ late[q] \in Nat /\ iters'[q] \in Nat /\ late'[q] \in Nat
        /\ latePasses[q] \in Nat /\ latePasses'[q] \in Nat
        /\ Left(q) \in Nat /\ Left(q)' \in Nat /\ Passes(q) \in Nat /\ Passes(q)' \in Nat
    <2>1. Left(q)' \in Nat /\ Passes(q)' \in Nat
      <3>1. half'[q] \in {1, 2} /\ retried'[q] \in BOOLEAN
        BY DEF AccountTypes
      <3>2. CallsLeft(q)' \in Nat /\ PassesLeft(q)' \in Nat
        BY <3>1 DEF CallsLeft, PassesLeft
      <3> QED BY <3>2 DEF Left, LaterLeft, Passes, LaterPasses
    <2> QED BY <2>1, LeftType DEF AccountTypes
  <1>3. Exhausted => Exhausted'
    BY LimitsAssumption DEF Effect, Exhausted, AccountTypes
  <1>4. CASE q # r
    <2>1. /\ pc'[q] = pc[q] /\ stage'[q] = stage[q] /\ half'[q] = half[q]
          /\ retried'[q] = retried[q]
        /\ iters'[q] = iters[q] /\ late'[q] = late[q] /\ latePasses'[q] = latePasses[q]
      BY <1>4 DEF Effect, Rest
    <2>2. StageOK(q)' /\ Left(q)' = Left(q) /\ Passes(q)' = Passes(q)
      BY <1>1, <2>1 DEF StageOK, Left, CallsLeft, LaterLeft, Passes, PassesLeft, LaterPasses
    <2> QED BY <1>1, <1>3, <2>1, <2>2
  <1>5. CASE q = r /\ Pays(r)
    <2>1. StageOK(q)'
      BY <1>5 DEF Effect
    <2>2. /\ iters'[q] + Left(q)' <= iters[q] + Left(q)
          /\ late'[q] + Left(q)' <= late[q] + Left(q)
          /\ late'[q] = late[q] \/ Exhausted
          /\ latePasses'[q] + Passes(q)' <= latePasses[q] + Passes(q)
          /\ latePasses'[q] = latePasses[q] \/ Exhausted
      BY <1>5 DEF Pays
    <2> QED BY <1>1, <1>2, <1>3, <2>1, <2>2, LimitsAssumption
  <1>6. CASE q = r /\ Admitted(r)
    <2>1. StageOK(q)'
      BY <1>6 DEF Effect
    <2>2. /\ LimitReason(q) = "none" /\ pc'[q] = "boundary"
            /\ iters'[q] = iters[q] /\ late'[q] = late[q] /\ latePasses'[q] = latePasses[q]
      BY <1>6 DEF Admitted
    <2>3. /\ Left(q)' <= (IF q \in JSONRuns THEN 6 ELSE 2)
          /\ Passes(q)' <= (IF q \in JSONRuns THEN 6 ELSE 3)
      BY <2>2 DEF Left, CallsLeft, LaterLeft, Passes, PassesLeft, LaterPasses
    <2>4. ~Exhausted /\ (MaxIterations >= 0 => ~(iters[q] >= MaxIterations))
      BY <2>2 DEF LimitReason
    <2> QED BY <1>1, <1>2, <2>1, <2>2, <2>3, <2>4, LimitsAssumption
  <1> QED BY <1>4, <1>5, <1>6 DEF Effect

(***************************************************************************)
(* The accounts hold for any limits, any number of concurrent runs on the  *)
(* pool and any host charges between two of their steps.                   *)
(***************************************************************************)
THEOREM AccountsHold == Spec => []Accounts
  <1>1. Init => Accounts
    <2> SUFFICES ASSUME Init, NEW r \in Runs
                 PROVE  /\ StageOK(r)
                        /\ MaxIterations >= 0 => iters[r] + Left(r) <=
                              MaxIterations + (IF r \in JSONRuns THEN 5 ELSE 1)
                        /\ late[r] + Left(r) <= IF r \in JSONRuns THEN 6 ELSE 2
                        /\ latePasses[r] + Passes(r) <= IF r \in JSONRuns THEN 6 ELSE 3
                        /\ late[r] > 0 \/ latePasses[r] > 0 => Exhausted
      BY DEF Accounts
    <2>1. pc[r] = "idle" /\ stage[r] = "main" /\ iters[r] = 0 /\ late[r] = 0
          /\ latePasses[r] = 0
      BY DEF Init
    <2>2. StageOK(r) /\ Left(r) = IF r \in JSONRuns THEN 4 ELSE 0
      BY <2>1 DEF StageOK, Left, CallsLeft, LaterLeft
    <2>3. Passes(r) = IF r \in JSONRuns THEN 3 ELSE 0
      BY <2>1 DEF Passes, PassesLeft, LaterPasses
    <2> QED BY <2>1, <2>2, <2>3, LimitsAssumption
  <1>2. TypeOK /\ TypeOK' /\ Accounts /\ [Next]_vars => Accounts'
    <2> SUFFICES ASSUME TypeOK, TypeOK', Accounts, [Next]_vars PROVE Accounts'
      OBVIOUS
    <2>1. AccountTypes /\ AccountTypes'
      BY DEF TypeOK, AccountTypes
    <2>2. \A r \in Runs : StageOK(r)
      BY DEF Accounts
    <2>3. ASSUME NEW r \in Runs, RunStep(r) PROVE Accounts'
      BY <2>1, <2>2, <2>3, RunStepEffect, EffectKeepsAccounts
    <2>4. ASSUME NEW r \in Runs, NEW p \in Runs \cup {NoRun}, Start(r, p) PROVE Accounts'
      <3>1. /\ pc[r] = "idle"
            /\ UNCHANGED <<stage, half, retried, iters, late, latePasses, spent>>
            /\ Goto(r, "done") \/ Goto(r, "top")
        BY <2>4 DEF Start, poolVars
      <3>2. stage[r] = "main"
        BY <2>1, <2>2, <3>1 DEF StageOK, AccountTypes
      <3>3. Effect(r)
        BY <2>1, <2>2, <3>1, <3>2, GotoEffect
      <3> QED BY <2>1, <3>3, EffectKeepsAccounts
    <2>5. CASE \/ \E r \in Runs : Cancel(r)
               \/ \E kind \in TurnKinds : Enqueue(kind)
               \/ \E cost \in Costs : AddSpend(cost)
               \/ AllDone \/ UNCHANGED vars
      <3>1. UNCHANGED <<pc, stage, half, retried, iters, late, latePasses>>
        BY <2>5 DEF Cancel, Enqueue, AddSpend, AllDone, vars, runVars, steerVars, poolVars
      <3>2. spent' >= spent
        <4>1. spent' = spent \/ \E cost \in Costs : spent' = spent + cost
          BY <2>5 DEF Cancel, Enqueue, AddSpend, AllDone, vars, runVars, steerVars, poolVars
        <4> QED BY <2>1, <4>1, LimitsAssumption DEF AccountTypes
      <3>3. Exhausted => Exhausted'
        BY <2>1, <3>2, LimitsAssumption DEF Exhausted, AccountTypes
      <3> QED BY <3>1, <3>3
              DEF Accounts, StageOK, Left, CallsLeft, LaterLeft, Passes, PassesLeft, LaterPasses
    <2> QED BY <2>3, <2>4, <2>5 DEF Next
  <1> QED BY <1>1, <1>2, TypeCorrect, PTL DEF Spec

(***************************************************************************)
(* Limits.MaxIterations bounds every call of Run and RunJSON: at most one  *)
(* completion more for Run and five more for RunJSON.                      *)
(***************************************************************************)
THEOREM IterationsBounded == Spec => []IterationBound
  <1>1. TypeOK /\ Accounts => IterationBound
    <2> SUFFICES ASSUME TypeOK, Accounts, MaxIterations >= 0, NEW r \in Runs
                 PROVE  iters[r] <= MaxIterations + (IF r \in JSONRuns THEN 5 ELSE 1)
      BY DEF IterationBound
    <2>1. iters[r] \in Nat /\ Left(r) \in Nat
      BY LeftType DEF TypeOK, AccountTypes
    <2> QED BY <2>1, LimitsAssumption DEF Accounts
  <1> QED BY <1>1, TypeCorrect, AccountsHold, PTL

(***************************************************************************)
(* A shared BudgetPool is overrun by at most two completions and three     *)
(* summarizing passes of each Run, and six of both of each RunJSON that    *)
(* uses it, however the runs interleave.                                   *)
(***************************************************************************)
THEOREM PoolOverrunBounded == Spec => []PoolOverrun
  <1>1. TypeOK /\ Accounts => PoolOverrun
    <2> SUFFICES ASSUME TypeOK, Accounts, NEW r \in Runs
                 PROVE  /\ late[r] <= IF r \in JSONRuns THEN 6 ELSE 2
                        /\ latePasses[r] <= IF r \in JSONRuns THEN 6 ELSE 3
      BY DEF PoolOverrun
    <2>1. late[r] \in Nat /\ Left(r) \in Nat /\ latePasses[r] \in Nat /\ Passes(r) \in Nat
      BY LeftType DEF TypeOK, AccountTypes
    <2> QED BY <2>1 DEF Accounts
  <1> QED BY <1>1, TypeCorrect, AccountsHold, PTL

----------------------------------------------------------------------------
\* The Steering handle.

\* A failing run stays inside Runner.run until its deferred unbind.
LEMMA FailKeepsHold ==
    ASSUME AccountTypes, NEW r \in Runs, NEW failure, Fail(r, failure), UNCHANGED stage,
           pc[r] \in {"boundary", "compact", "call", "tools", "decide"}, StageOK(r)
    PROVE  InRun(r)' <=> InRun(r)
  <1>1. pc'[r] = IF stage[r] = "repair" THEN "done" ELSE "unwind"
    BY DEF Fail, Goto, Set, AccountTypes
  <1> QED BY <1>1 DEF InRun, StageOK

\* finalizeAndTruncate stays inside Runner.run.
LEMMA FinalizeKeepsHold ==
    ASSUME AccountTypes, NEW r \in Runs, NEW reason, NEW h, FinalizeAndTruncate(r, reason, h)
    PROVE  InRun(r)'
  <1>1. pc'[r] = "unwind" \/ pc'[r] = "compact"
    BY DEF FinalizeAndTruncate, StopLoop, BeginCompletion, Goto, Set, AccountTypes
  <1> QED BY <1>1 DEF InRun

\* Only Unwind leaves Runner.run, and only Unwind releases the handle.
LEMMA RunStepKeepsHold ==
    ASSUME AccountTypes, NEW r \in Runs, StageOK(r), RunStep(r), ~Unwind(r)
    PROVE  bound' = bound /\ (InRun(r)' <=> InRun(r))
  <1> USE DEF steerVars, poolVars
  <1>1. CASE CheckLimits(r)
    <2>1. pc[r] = "top" /\ bound' = bound
      BY <1>1 DEF CheckLimits
    <2>2. InRun(r)'
      <3>1. CASE LimitReason(r) = "none"
        <4>1. pc'[r] = "boundary"
          BY <1>1, <3>1 DEF CheckLimits, Goto, Set, AccountTypes
        <4> QED BY <4>1 DEF InRun
      <3>2. CASE LimitReason(r) # "none"
        <4>1. FinalizeAndTruncate(r, LimitReason(r), hist[r])
          BY <1>1, <3>2 DEF CheckLimits
        <4> QED BY <4>1, FinalizeKeepsHold
      <3> QED BY <3>1, <3>2
    <2> QED BY <2>1, <2>2 DEF InRun
  <1>2. CASE Boundary(r)
    <2>1. pc[r] = "boundary" /\ bound' = bound
      BY <1>2 DEF Boundary
    <2>2. CASE cancelled[r]
      <3>1. Fail(r, "cancelled") /\ UNCHANGED stage
        BY <1>2, <2>2 DEF Boundary
      <3> QED BY <2>1, <3>1, FailKeepsHold
    <2>3. CASE ~cancelled[r]
      <3>1. BeginCompletion(r, "main", "compact")
        BY <1>2, <2>3 DEF Boundary
      <3>2. pc'[r] = "compact"
        BY <3>1 DEF BeginCompletion, Goto, Set, AccountTypes
      <3> QED BY <2>1, <3>2 DEF InRun
    <2> QED BY <2>2, <2>3
  <1>3. CASE Compact(r)
    <2>1. pc[r] = "compact" /\ bound' = bound /\ UNCHANGED stage
      BY <1>3 DEF Compact, CompactFree, CompactSummary, CompactFail
    <2>2. Goto(r, "call") \/ Fail(r, "error")
      BY <1>3 DEF Compact, CompactFree, CompactSummary, CompactFail
    <2>3. CASE Goto(r, "call")
      <3>1. pc'[r] = "call"
        BY <2>3 DEF Goto, Set, AccountTypes
      <3> QED BY <2>1, <3>1 DEF InRun, StageOK
    <2> QED BY <2>1, <2>2, <2>3, FailKeepsHold
  <1>4. CASE Complete(r)
    <2>1. pc[r] = "call" /\ bound' = bound /\ UNCHANGED stage
      BY <1>4 DEF Complete, CompletionReturns, CompletionFails, OverflowStub, OverflowSummary,
                  OverflowGivesUp, Overflows
    <2>2. ASSUME NEW answer \in Responses, NEW cost \in Costs, CompletionReturns(r, answer, cost)
          PROVE  InRun(r)' <=> InRun(r)
      <3>1. \/ UNCHANGED pc
            \/ stage[r] = "main" /\ Goto(r, IF answer.calls = 0 THEN "decide" ELSE "tools")
            \/ stage[r] = "final" /\ StopLoop(r, why[r])
            \/ stage[r] = "repair" /\ Goto(r, "parse")
        BY <2>2 DEF CompletionReturns
      <3>2. \/ pc'[r] = "call"
            \/ stage[r] = "main" /\ pc'[r] \in {"decide", "tools"}
            \/ stage[r] = "final" /\ pc'[r] = "unwind"
            \/ stage[r] = "repair" /\ pc'[r] = "parse"
        BY <2>1, <3>1 DEF StopLoop, Goto, Set, AccountTypes
      <3> QED BY <2>1, <3>2 DEF InRun
    <2>3. CASE CompletionFails(r) \/ \E cost \in Costs : OverflowGivesUp(r, cost)
      BY <2>1, <2>3, FailKeepsHold DEF CompletionFails, OverflowGivesUp
    <2>4. CASE OverflowStub(r) \/ \E cost \in Costs : OverflowSummary(r, cost)
      BY <2>1, <2>4 DEF OverflowStub, OverflowSummary, InRun
    <2> QED BY <1>4, <2>1, <2>2, <2>3, <2>4 DEF Complete
  <1>5. ASSUME NEW k \in 0..MaxCalls, ExecuteTools(r, k)
        PROVE  bound' = bound /\ (InRun(r)' <=> InRun(r))
    <2> DEFINE h == hist[r] \o ToolResults(r, iters[r], k)
    <2>1. /\ pc[r] = "tools" /\ bound' = bound
          /\ \/ Fail(r, "cancelled") /\ UNCHANGED stage
             \/ FinalizeAndTruncate(r, "tokenBudget", h)
             \/ Goto(r, "top")
      BY <1>5 DEF ExecuteTools
    <2> HIDE DEF h
    <2>2. InRun(r)
      BY <2>1 DEF InRun
    <2>3. CASE Goto(r, "top")
      <3>1. pc'[r] = "top"
        BY <2>3 DEF Goto, Set, AccountTypes
      <3> QED BY <2>1, <2>2, <3>1 DEF InRun
    <2> QED BY <2>1, <2>2, <2>3, FailKeepsHold, FinalizeKeepsHold
  <1>6. CASE Refused(r)
    BY <1>6, FailKeepsHold DEF Refused
  <1>7. CASE DrainAll(r) \/ FinishTurn(r)
    <2>1. pc[r] = "decide" /\ bound' = bound /\ (Goto(r, "top") \/ Goto(r, "unwind"))
      BY <1>7 DEF DrainAll, FinishTurn, StopLoop
    <2>2. pc'[r] \in {"top", "unwind"}
      BY <2>1 DEF Goto, Set, AccountTypes
    <2> QED BY <2>1, <2>2 DEF InRun
  <1>8. CASE ParseAnswer(r)
    <2>1. /\ pc[r] = "parse" /\ bound' = bound
          /\ Goto(r, "done") \/ BeginCompletion(r, "repair", "call")
      BY <1>8 DEF ParseAnswer
    <2>2. pc'[r] = "done" \/ (pc'[r] = "call" /\ stage'[r] = "repair")
      BY <2>1 DEF BeginCompletion, Goto, Set, AccountTypes
    <2> QED BY <2>1, <2>2 DEF InRun
  <1>9. CASE HookPanics(r)
    BY <1>9, FailKeepsHold DEF HookPanics
  <1> QED BY <1>1, <1>2, <1>3, <1>4, <1>5, <1>6, <1>7, <1>8, <1>9 DEF RunStep

\* The other runs are where they were.
LEMMA RestInRun ==
    ASSUME NEW r \in Runs, Rest(r), NEW q \in Runs, q # r
    PROVE  InRun(q)' <=> InRun(q)
  BY DEF Rest, InRun

\* Unwind is the end of Runner.run.
LEMMA UnwindReleases ==
    ASSUME AccountTypes, NEW r \in Runs, Unwind(r)
    PROVE  InRun(r) /\ ~InRun(r)' /\ bound' = (bound /\ r \notin Steered)
  <1>1. pc[r] = "unwind" /\ bound' = (bound /\ r \notin Steered)
    BY DEF Unwind
  <1>2. pc'[r] \in {"parse", "done"}
    BY DEF Unwind, Goto, Set, AccountTypes
  <1> QED BY <1>1, <1>2 DEF InRun

\* A run that starts is inside Runner.run unless the handle refused it.
LEMMA StartBinds ==
    ASSUME AccountTypes, NEW r \in Runs, StageOK(r), NEW p, Start(r, p)
    PROVE  /\ ~InRun(r) /\ Rest(r)
           /\ \/ r \in Steered /\ bound /\ ~InRun(r)' /\ bound' = bound
              \/ ~(r \in Steered /\ bound) /\ InRun(r)' /\ bound' = (bound \/ r \in Steered)
  <1>1. pc[r] = "idle" /\ UNCHANGED <<stage, half, retried, iters, late, latePasses>>
    BY DEF Start, poolVars
  <1>2. Rest(r)
    BY <1>1 DEF Start, Rest, Goto, Set, AccountTypes
  <1>3. CASE r \in Steered /\ bound
    <2>1. pc'[r] = "done" /\ bound' = bound
      BY <1>3 DEF Start, Goto, Set, AccountTypes
    <2> QED BY <1>1, <1>2, <1>3, <2>1 DEF InRun
  <1>4. CASE ~(r \in Steered /\ bound)
    <2>1. pc'[r] = "top" /\ bound' = (bound \/ r \in Steered)
      BY <1>4 DEF Start, Goto, Set, AccountTypes
    <2> QED BY <1>1, <1>2, <1>4, <2>1 DEF InRun
  <1> QED BY <1>3, <1>4

(***************************************************************************)
(* A Steering handle is held by one run at a time and released by every    *)
(* path out of Runner.run, for any number of runs that share it.           *)
(***************************************************************************)
THEOREM HandleExclusive == Spec => []HandleHeldByOneRun
  <1>1. Init => HandleHeldByOneRun
    <2>1. ASSUME Init, NEW r \in Steered PROVE ~InRun(r)
      <3>1. pc[r] = "idle"
        BY <2>1, RunsAssumption DEF Init
      <3> QED BY <3>1 DEF InRun
    <2> QED BY <2>1 DEF Init, HandleHeldByOneRun
  <1>2. TypeOK /\ Accounts /\ HandleHeldByOneRun /\ [Next]_vars => HandleHeldByOneRun'
    <2> SUFFICES ASSUME TypeOK, Accounts, HandleHeldByOneRun, [Next]_vars
                 PROVE  HandleHeldByOneRun'
      OBVIOUS
    <2>1. AccountTypes /\ Steered \subseteq Runs
      BY RunsAssumption DEF TypeOK, AccountTypes
    <2>2. \A r \in Runs : StageOK(r)
      BY DEF Accounts
    <2>3. ASSUME NEW r \in Runs, RunStep(r) PROVE HandleHeldByOneRun'
      <3>1. Rest(r)
        BY <2>1, <2>2, <2>3, RunStepEffect DEF Effect
      <3>2. \A q \in Runs \ {r} : InRun(q)' <=> InRun(q)
        BY <3>1, RestInRun
      <3>3. CASE Unwind(r)
        <4>1. InRun(r) /\ ~InRun(r)' /\ bound' = (bound /\ r \notin Steered)
          BY <2>1, <3>3, UnwindReleases
        <4> QED BY <2>1, <3>2, <4>1 DEF HandleHeldByOneRun
      <3>4. CASE ~Unwind(r)
        <4>1. bound' = bound /\ (InRun(r)' <=> InRun(r))
          BY <2>1, <2>2, <2>3, <3>4, RunStepKeepsHold
        <4> QED BY <2>1, <3>2, <4>1 DEF HandleHeldByOneRun
      <3> QED BY <3>3, <3>4
    <2>4. ASSUME NEW r \in Runs, NEW p \in Runs \cup {NoRun}, Start(r, p)
          PROVE  HandleHeldByOneRun'
      <3>1. /\ ~InRun(r) /\ Rest(r)
            /\ \/ r \in Steered /\ bound /\ ~InRun(r)' /\ bound' = bound
               \/ ~(r \in Steered /\ bound) /\ InRun(r)' /\ bound' = (bound \/ r \in Steered)
        BY <2>1, <2>2, <2>4, StartBinds
      <3>2. \A q \in Runs \ {r} : InRun(q)' <=> InRun(q)
        BY <3>1, RestInRun
      <3>3. CASE r \in Steered /\ ~bound
        <4>1. \A q \in Steered : ~InRun(q)
          BY <3>3 DEF HandleHeldByOneRun
        <4>2. InRun(r)' /\ bound' /\ \A q \in Steered \ {r} : ~InRun(q)'
          BY <2>1, <3>1, <3>2, <3>3, <4>1
        <4> QED BY <3>3, <4>2 DEF HandleHeldByOneRun
      <3>4. CASE r \in Steered /\ bound
        <4>1. bound' = bound /\ \A q \in Steered : InRun(q)' <=> InRun(q)
          BY <2>1, <3>1, <3>2, <3>4
        <4> QED BY <4>1 DEF HandleHeldByOneRun
      <3>5. CASE r \notin Steered
        <4>1. (bound' <=> bound) /\ \A q \in Steered : InRun(q)' <=> InRun(q)
          BY <2>1, <3>1, <3>2, <3>5
        <4> QED BY <4>1 DEF HandleHeldByOneRun
      <3> QED BY <3>3, <3>4, <3>5
    <2>5. CASE \/ \E r \in Runs : Cancel(r)
               \/ \E kind \in TurnKinds : Enqueue(kind)
               \/ \E cost \in Costs : AddSpend(cost)
               \/ AllDone \/ UNCHANGED vars
      <3>1. UNCHANGED <<pc, stage, bound>>
        BY <2>5 DEF Cancel, Enqueue, AddSpend, AllDone, vars, runVars, steerVars, poolVars
      <3> QED BY <3>1 DEF HandleHeldByOneRun, InRun
    <2> QED BY <2>3, <2>4, <2>5 DEF Next
  <1> QED BY <1>1, <1>2, TypeCorrect, AccountsHold, PTL DEF Spec

\* The holder of the handle, when there is one, is the steered run inside Runner.run.
LEMMA HolderIs ==
    ASSUME HandleHeldByOneRun
    PROVE  /\ \A r \in Steered : InRun(r) => Holder = r
           /\ (\A r \in Steered : ~InRun(r)) => Holder = NoRun
  <1>1. ASSUME NEW r \in Steered, InRun(r) PROVE Holder = r
    <2>1. \E q \in Steered : InRun(q)
      BY <1>1
    <2>2. Holder \in Steered /\ InRun(Holder)
      BY <2>1 DEF Holder
    <2> QED BY <1>1, <2>2 DEF HandleHeldByOneRun
  <1>2. (\A r \in Steered : ~InRun(r)) => Holder = NoRun
    BY DEF Holder
  <1> QED BY <1>1, <1>2

\* The same of the next state.
LEMMA HolderIsNext ==
    ASSUME HandleHeldByOneRun'
    PROVE  /\ \A r \in Steered : InRun(r)' => Holder' = r
           /\ (\A r \in Steered : ~InRun(r)') => Holder' = NoRun
  <1>1. ASSUME NEW r \in Steered, InRun(r)' PROVE Holder' = r
    <2>1. \E q \in Steered : InRun(q)'
      BY <1>1
    <2>2. PICK q \in Steered : Holder' = q /\ InRun(q)'
      BY <2>1 DEF Holder
    <2> QED BY <1>1, <2>2 DEF HandleHeldByOneRun
  <1>2. (\A r \in Steered : ~InRun(r)') => Holder' = NoRun
    BY DEF Holder
  <1> QED BY <1>1, <1>2

\* Steps that leave every steered run where it is keep the holder.
LEMMA HolderKept ==
    ASSUME HandleHeldByOneRun, HandleHeldByOneRun',
           \A r \in Steered : InRun(r)' <=> InRun(r)
    PROVE  Holder' = Holder
  <1>1. CASE \E r \in Steered : InRun(r)
    BY <1>1, HolderIs, HolderIsNext
  <1>2. CASE \A r \in Steered : ~InRun(r)
    BY <1>2, HolderIs, HolderIsNext
  <1> QED BY <1>1, <1>2

\* A drain is a hand-over to the holder, or takes nothing.
LEMMA DeliverHandsOver ==
    ASSUME NEW r \in Steered, NEW T, Holder = r, Holder' = r, Deliver(r, T),
           T = {} \/ T = Steers \/ T = queue, UNCHANGED turnKind
    PROVE  [Handle!TQNext]_(Handle!turnVars)
  <1>1. CASE T = {}
    <2>1. queue' = queue /\ delivered' = delivered
      BY <1>1 DEF Deliver
    <2> QED BY <2>1 DEF Handle!turnVars
  <1>2. CASE T # {}
    <2>1. queue' = queue \ T /\ delivered' = Append(delivered, [run |-> r, turns |-> T])
      BY <1>2 DEF Deliver
    <2>2. Handle!HandOver(r, T)
      BY <1>2, <2>1 DEF Handle!HandOver
    <2>3. Handle!PendingSteers = Steers
      BY DEF Handle!PendingSteers, Steers
    <2> QED BY <1>2, <2>2, <2>3 DEF Handle!TQNext
  <1> QED BY <1>1, <1>2

\* Every step of a run is a step of the handle's specification.
LEMMA RunStepRefines ==
    ASSUME AccountTypes, HandleHeldByOneRun, HandleHeldByOneRun',
           NEW r \in Runs, StageOK(r), RunStep(r)
    PROVE  [Handle!TQNext]_(Handle!turnVars)
  <1> USE DEF steerVars, poolVars
  <1>0. Steered \subseteq Runs
    BY RunsAssumption
  <1>1. \A q \in Runs \ {r} : InRun(q)' <=> InRun(q)
    BY RunStepEffect, RestInRun DEF Effect
  <1>2. CASE Unwind(r)
    <2>1. InRun(r) /\ ~InRun(r)' /\ UNCHANGED <<turnKind, queue, delivered>>
      BY <1>2, UnwindReleases DEF Unwind
    <2>2. CASE r \in Steered
      <3>1. Holder = r
        BY <2>1, <2>2, HolderIs
      <3>2. \A q \in Steered : ~InRun(q)'
        BY <1>0, <1>1, <2>1, <2>2 DEF HandleHeldByOneRun
      <3>3. Holder' = NoRun
        BY <3>2, HolderIsNext
      <3>4. Handle!Release(r)
        BY <2>1, <3>1, <3>3 DEF Handle!Release
      <3> QED BY <2>2, <3>4 DEF Handle!TQNext
    <2>3. CASE r \notin Steered
      <3>1. Holder' = Holder
        BY <1>0, <1>1, <2>3, HolderKept
      <3> QED BY <2>1, <3>1 DEF Handle!turnVars
    <2> QED BY <2>2, <2>3
  <1>3. CASE ~Unwind(r)
    <2>1. InRun(r)' <=> InRun(r)
      BY <1>3, RunStepKeepsHold
    <2>2. Holder' = Holder
      BY <1>0, <1>1, <2>1, HolderKept
    <2>3. CASE UNCHANGED <<turnKind, queue, delivered>>
      BY <2>2, <2>3 DEF Handle!turnVars
    <2>4. CASE Boundary(r)
      <3>1. CASE r \in Steered /\ ~cancelled[r]
        <4>1. pc[r] = "boundary" /\ Deliver(r, Steers) /\ UNCHANGED turnKind
          BY <2>4, <3>1 DEF Boundary
        <4>2. Holder = r
          BY <3>1, <4>1, HolderIs DEF InRun
        <4> QED BY <2>2, <3>1, <4>1, <4>2, DeliverHandsOver
      <3>2. CASE ~(r \in Steered /\ ~cancelled[r])
        <4>1. UNCHANGED <<turnKind, queue, delivered>>
          BY <2>4, <3>2 DEF Boundary, Deliver
        <4> QED BY <2>3, <4>1
      <3> QED BY <3>1, <3>2
    <2>5. CASE DrainAll(r)
      <3>1. r \in Steered /\ pc[r] = "decide" /\ Deliver(r, queue) /\ UNCHANGED turnKind
        BY <2>5 DEF DrainAll
      <3>2. Holder = r
        BY <3>1, HolderIs DEF InRun
      <3> QED BY <2>2, <3>1, <3>2, DeliverHandsOver
    <2>6. CASE CheckLimits(r)
      BY <2>3, <2>6 DEF CheckLimits
    <2>7. CASE Compact(r)
      BY <2>3, <2>7 DEF Compact, CompactFree, CompactSummary, CompactFail
    <2>8. CASE Complete(r)
      BY <2>3, <2>8 DEF Complete, CompletionReturns, CompletionFails, OverflowStub,
                       OverflowSummary, OverflowGivesUp
    <2>9. CASE \E k \in 0..MaxCalls : ExecuteTools(r, k)
      BY <2>3, <2>9 DEF ExecuteTools
    <2>10. CASE Refused(r) \/ FinishTurn(r) \/ ParseAnswer(r) \/ HookPanics(r)
      BY <2>3, <2>10 DEF Refused, FinishTurn, ParseAnswer, HookPanics
    <2> QED BY <1>3, <2>4, <2>5, <2>6, <2>7, <2>8, <2>9, <2>10 DEF RunStep
  <1> QED BY <1>2, <1>3

(***************************************************************************)
(* The loop implements the promise of the handle: however the runs start,  *)
(* fail, are cancelled or panic, turns change hands only as TurnQueue      *)
(* allows, so what TurnQueueProofs proves of the turns holds of the loop.  *)
(***************************************************************************)
THEOREM RunLoopRefinesTurnQueue == Spec => ImplementsTurnQueue
  <1>1. Init => Handle!TQInit
    <2> SUFFICES ASSUME Init PROVE Handle!TQInit
      OBVIOUS
    <2>1. \A r \in Steered : ~InRun(r)
      <3>1. \A r \in Steered : pc[r] = "idle"
        BY RunsAssumption DEF Init
      <3> QED BY <3>1 DEF InRun
    <2>2. Holder = NoRun
      BY <2>1 DEF Holder
    <2> QED BY <2>2 DEF Init, Handle!TQInit
  <1>2. ASSUME TypeOK, Accounts, HandleHeldByOneRun, HandleHeldByOneRun', [Next]_vars
        PROVE  [Handle!TQNext]_(Handle!turnVars)
    <2>1. AccountTypes /\ Steered \subseteq Runs
      BY <1>2, RunsAssumption DEF TypeOK, AccountTypes
    <2>2. \A r \in Runs : StageOK(r)
      BY <1>2 DEF Accounts
    <2>3. ASSUME NEW r \in Runs, RunStep(r) PROVE [Handle!TQNext]_(Handle!turnVars)
      BY <1>2, <2>1, <2>2, <2>3, RunStepRefines
    <2>4. ASSUME NEW r \in Runs, NEW p \in Runs \cup {NoRun}, Start(r, p)
          PROVE  [Handle!TQNext]_(Handle!turnVars)
      <3>1. /\ ~InRun(r) /\ Rest(r)
            /\ \/ r \in Steered /\ bound /\ ~InRun(r)' /\ bound' = bound
               \/ ~(r \in Steered /\ bound) /\ InRun(r)' /\ bound' = (bound \/ r \in Steered)
        BY <2>1, <2>2, <2>4, StartBinds
      <3>2. \A q \in Runs \ {r} : InRun(q)' <=> InRun(q)
        BY <3>1, RestInRun
      <3>3. UNCHANGED <<turnKind, queue, delivered>>
        BY <2>4 DEF Start
      <3>4. CASE r \in Steered /\ ~bound
        <4>1. \A q \in Steered : ~InRun(q)
          BY <1>2, <3>4 DEF HandleHeldByOneRun
        <4>2. Holder = NoRun
          BY <1>2, <4>1, HolderIs
        <4>3. Holder' = r
          BY <1>2, <3>1, <3>4, HolderIsNext
        <4>4. Handle!Claim(r)
          BY <3>3, <4>2, <4>3 DEF Handle!Claim
        <4> QED BY <3>4, <4>4 DEF Handle!TQNext
      <3>5. CASE ~(r \in Steered /\ ~bound)
        <4>1. \A q \in Steered : InRun(q)' <=> InRun(q)
          BY <2>1, <3>1, <3>2, <3>5
        <4>2. Holder' = Holder
          BY <1>2, <4>1, HolderKept
        <4> QED BY <3>3, <4>2 DEF Handle!turnVars
      <3> QED BY <3>4, <3>5
    <2>5. CASE \/ \E r \in Runs : Cancel(r)
               \/ \E kind \in TurnKinds : Enqueue(kind)
               \/ \E cost \in Costs : AddSpend(cost)
               \/ AllDone \/ UNCHANGED vars
      <3>1. UNCHANGED <<pc, stage>>
        BY <2>5 DEF Cancel, Enqueue, AddSpend, AllDone, vars, runVars, steerVars, poolVars
      <3>2. Holder' = Holder
        <4>1. \A q \in Steered : InRun(q)' <=> InRun(q)
          BY <3>1 DEF InRun
        <4> QED BY <1>2, <4>1, HolderKept
      <3>3. CASE \E kind \in TurnKinds : Enqueue(kind)
        <4>1. PICK kind \in TurnKinds : Enqueue(kind)
          BY <3>3
        <4>2. Handle!QueueTurn(kind) /\ kind \in Handle!Kinds
          BY <3>2, <4>1 DEF Enqueue, Handle!QueueTurn, Handle!Kinds, TurnKinds
        <4> QED BY <4>2 DEF Handle!TQNext
      <3>4. CASE ~\E kind \in TurnKinds : Enqueue(kind)
        <4>1. UNCHANGED <<turnKind, queue, delivered>>
          BY <2>5, <3>4 DEF Cancel, AddSpend, AllDone, vars, runVars, steerVars, poolVars
        <4> QED BY <3>2, <4>1 DEF Handle!turnVars
      <3> QED BY <3>3, <3>4
    <2> QED BY <1>2, <2>3, <2>4, <2>5 DEF Next
  <1> QED BY <1>1, <1>2, TypeCorrect, AccountsHold, HandleExclusive, PTL
          DEF Spec, ImplementsTurnQueue, Handle!TQSpec

----------------------------------------------------------------------------
(***************************************************************************)
(* The requests.  Between turns a run's history is well formed; in a tool  *)
(* phase its last turn is the one to be answered; and a run that was       *)
(* cancelled, failed or panicked leaves a history that is at worst cut     *)
(* short at that turn, which is what a run that continues it repairs.      *)
(***************************************************************************)

\* The history ends with the model's word: a turn that asks for no tool.
EndsInWord(h) ==
    Len(h) > 0 /\ h[Len(h)].kind = "assistant" /\ h[Len(h)].n = 0 /\ WellFormed(h)

ShapeOK(r) ==
    /\ Continuable(hist[r]) /\ Plain(hist[r])
    /\ \/ pc[r] \in {"idle", "top", "boundary", "compact"}
       \/ pc[r] = "call" /\ stage[r] # "repair"
       => WellFormed(hist[r])
    /\ pc[r] = "tools" =>
          /\ CutShort(hist[r], Len(hist[r]))
          /\ hist[r][Len(hist[r])] = AssistantTurn(r, iters[r], resp[r].calls)
    /\ pc[r] = "decide" => EndsInWord(hist[r])
    /\ pc[r] \notin {"unwind", "done"} => result[r] = "none"
    /\ pc[r] = "unwind" => result[r] # "answer"
    /\ pc[r] = "unwind" /\ r \notin JSONRuns /\ result[r] = "none" /\ trunc[r] = "none"
          => EndsInWord(hist[r])
    /\ result[r] = "answer" /\ r \notin JSONRuns => EndsInWord(hist[r])

ShapeInv == \A r \in Runs : ShapeOK(r)

\* The conversations of the other runs are not touched.
Apart(r) ==
    \A q \in Runs \ {r} :
        /\ pc'[q] = pc[q] /\ stage'[q] = stage[q] /\ hist'[q] = hist[q] /\ iters'[q] = iters[q]
        /\ resp'[q] = resp[q] /\ result'[q] = result[q] /\ trunc'[q] = trunc[q]

\* A run whose own state is kept keeps its shape.
LEMMA ShapeFrame ==
    ASSUME NEW q \in Runs, ShapeOK(q),
           pc'[q] = pc[q], stage'[q] = stage[q], hist'[q] = hist[q], iters'[q] = iters[q],
           resp'[q] = resp[q], result'[q] = result[q], trunc'[q] = trunc[q]
    PROVE  ShapeOK(q)'
  BY DEF ShapeOK

\* The steps that leave a request: the goroutine goes on inside the loop.
LEMMA ShapeGoesOn ==
    ASSUME NEW r \in Runs, WellFormed(hist[r])', Plain(hist[r])', result'[r] = "none",
           \/ pc'[r] \in {"idle", "top", "boundary", "compact", "call", "parse"}
           \/ pc'[r] = "unwind" /\ (r \in JSONRuns \/ trunc'[r] # "none" \/ EndsInWord(hist[r])')
           \/ pc'[r] = "decide" /\ EndsInWord(hist[r])'
    PROVE  ShapeOK(r)'
  BY DEF ShapeOK, Continuable

\* The steps that end a run, or leave its history to the caller.
LEMMA ShapeEnds ==
    ASSUME NEW r \in Runs, Continuable(hist[r])', Plain(hist[r])',
           \/ pc'[r] = "unwind" /\ result'[r] \in Failures
           \/ pc'[r] = "unwind" /\ result'[r] = "none" /\ (r \in JSONRuns \/ trunc'[r] # "none")
           \/ pc'[r] = "done" /\ (result'[r] = "answer" => r \in JSONRuns \/ EndsInWord(hist[r])')
           \/ pc'[r] = "parse" /\ result'[r] = "none"
           \/ pc'[r] = "call" /\ stage'[r] = "repair" /\ result'[r] = "none"
    PROVE  ShapeOK(r)'
  BY DEF ShapeOK, Failures

\* A failure leaves the history as it is, at the latest in the middle of its tools.
LEMMA FailShape ==
    ASSUME TypeOK, NEW r \in Runs, NEW failure \in Failures, Fail(r, failure),
           Continuable(hist[r])', Plain(hist[r])'
    PROVE  ShapeOK(r)'
  <1>1. result'[r] = failure /\ (pc'[r] = "done" \/ pc'[r] = "unwind")
    BY DEF Fail, Goto, Set, TypeOK
  <1>2. failure # "answer"
    BY DEF Failures
  <1> QED BY <1>1, <1>2, ShapeEnds

\* Turns appended one after the other.
LEMMA AppendedOne ==
    ASSUME NEW h \in Seq(Message), NEW m \in Message
    PROVE  h \o <<m>> = Append(h, m)
  OBVIOUS

\* A turn and the prompt behind it.
LEMMA AppendedTwo ==
    ASSUME NEW h \in Seq(Message), NEW m \in Message, NEW k \in Message
    PROVE  h \o <<m, k>> = Append(Append(h, m), k)
  OBVIOUS

\* The messages the loop appends, as the shape of a history sees them.
LEMMA AppendedKinds ==
    ASSUME NEW r \in Runs
    PROVE  /\ \A kind \in UserKinds :
                 /\ UserTurn(kind, r) \in Message
                 /\ UserTurn(kind, r).kind \notin {"assistant", "result"}
           /\ \A T \in SUBSET Nat :
                 /\ SteerTurns(r, T) \in Message
                 /\ SteerTurns(r, T).kind \notin {"assistant", "result"}
           /\ \A s, n \in Nat :
                 /\ AssistantTurn(r, s, n) \in Message
                 /\ AssistantTurn(r, s, n).kind = "assistant"
                 /\ AssistantTurn(r, s, n).n = n /\ AssistantTurn(r, s, n).turns = {}
  <1>1. \A kind \in UserKinds : kind \notin {"assistant", "result"}
    BY DEF UserKinds, HarnessKinds
  <1>2. /\ \A kind \in UserKinds : UserTurn(kind, r) \in Message
        /\ \A T \in SUBSET Nat : SteerTurns(r, T) \in Message
        /\ \A s, n \in Nat : AssistantTurn(r, s, n) \in Message
    BY MessageTypes
  <1>3. \A kind \in UserKinds : UserTurn(kind, r).kind \notin {"assistant", "result"}
    BY <1>1 DEF UserTurn
  <1>4. \A T \in SUBSET Nat : SteerTurns(r, T).kind \notin {"assistant", "result"}
    BY DEF SteerTurns
  <1>5. \A s, n \in Nat :
            /\ AssistantTurn(r, s, n).kind = "assistant"
            /\ AssistantTurn(r, s, n).n = n /\ AssistantTurn(r, s, n).turns = {}
    BY DEF AssistantTurn
  <1> QED BY <1>2, <1>3, <1>4, <1>5

\* A user turn behind a request leaves a request.
LEMMA UserTurnShape ==
    ASSUME NEW h \in Seq(Message), WellFormed(h), Plain(h),
           NEW m \in Message, m.kind \notin {"assistant", "result"}
    PROVE  WellFormed(Append(h, m)) /\ Plain(Append(h, m))
  <1>1. WellFormed(Append(h, m))
    BY AppendWellFormed
  <1>2. Plain(Append(h, m))
    BY PlainKept
  <1> QED BY <1>1, <1>2

\* A step of one run leaves the conversations of the others alone.
LEMMA RunStepApart ==
    ASSUME TypeOK, NEW r \in Runs, StageOK(r), RunStep(r)
    PROVE  Apart(r)
  <1>1. \A q \in Runs \ {r} : pc'[q] = pc[q] /\ stage'[q] = stage[q] /\ iters'[q] = iters[q]
    BY RunStepEffect DEF Effect, Rest, TypeOK, AccountTypes
  <1> SUFFICES \A q \in Runs \ {r} : /\ hist'[q] = hist[q] /\ resp'[q] = resp[q]
                                     /\ result'[q] = result[q] /\ trunc'[q] = trunc[q]
    BY <1>1 DEF Apart
  <1>2. resp' = resp \/ \E v : resp' = Set(resp, r, v)
    BY DEF RunStep, CheckLimits, Boundary, Compact, CompactFree, CompactSummary, CompactFail,
           Complete, CompletionReturns, CompletionFails, OverflowStub, OverflowSummary,
           OverflowGivesUp, ExecuteTools, Refused, DrainAll, FinishTurn, Unwind, ParseAnswer,
           HookPanics
  <1>3. result' = result \/ \E v : result' = Set(result, r, v)
    BY DEF RunStep, CheckLimits, Boundary, Compact, CompactFree, CompactSummary, CompactFail,
           Complete, CompletionReturns, CompletionFails, OverflowStub, OverflowSummary,
           OverflowGivesUp, ExecuteTools, Refused, DrainAll, FinishTurn, Unwind, ParseAnswer,
           HookPanics, Fail
  <1>4. trunc' = trunc \/ \E v : trunc' = Set(trunc, r, v)
    BY DEF RunStep, CheckLimits, Boundary, Compact, CompactFree, CompactSummary, CompactFail,
           Complete, CompletionReturns, CompletionFails, OverflowStub, OverflowSummary,
           OverflowGivesUp, ExecuteTools, Refused, DrainAll, FinishTurn, Unwind, ParseAnswer,
           HookPanics, FinalizeAndTruncate, StopLoop
  <1>5. hist' = hist \/ \E v : hist' = Set(hist, r, v)
    BY DEF RunStep, CheckLimits, Boundary, Compact, CompactFree, CompactSummary, CompactFail,
           Complete, CompletionReturns, CompletionFails, OverflowStub, OverflowSummary,
           OverflowGivesUp, ExecuteTools, Refused, DrainAll, FinishTurn, Unwind, ParseAnswer,
           HookPanics, FinalizeAndTruncate, Deliver, Push, AppendTurns
  <1> QED BY <1>2, <1>3, <1>4, <1>5 DEF Set, TypeOK

(***************************************************************************)
(* Run and RunJSON: the seed is trimmed and the task put behind it, so the *)
(* first request is well formed and carries every steering turn that the   *)
(* continued run had taken.                                                *)
(***************************************************************************)
LEMMA StartShape ==
    ASSUME TypeOK, ShapeInv, NEW r \in Runs, NEW p \in Runs \cup {NoRun}, Start(r, p)
    PROVE  /\ Apart(r) /\ ShapeOK(r)'
           /\ pc'[r] = "top" /\ p \in Runs => TurnsOf(hist[p]) \subseteq TurnsOf(hist'[r])
  <1>1. Apart(r)
    BY DEF Start, Apart, Goto, Set, TypeOK
  <1>2. pc[r] = "idle" /\ ShapeOK(r) /\ result[r] = "none"
    BY DEF Start, ShapeInv, ShapeOK
  <1>3. CASE r \in Steered /\ bound
    <2>1. hist' = hist /\ pc'[r] = "done" /\ result'[r] = "inUse"
      BY <1>3 DEF Start, Goto, Set, TypeOK
    <2>2. Continuable(hist[r])' /\ Plain(hist[r])'
      BY <1>2, <2>1 DEF ShapeOK
    <2>3. ShapeOK(r)'
      BY <2>1, <2>2, ShapeEnds
    <2> QED BY <1>1, <2>1, <2>3
  <1>4. CASE ~(r \in Steered /\ bound)
    <2> DEFINE seed == IF p = NoRun THEN <<>> ELSE hist[p]
               trimmed == TrimDanglingToolTurn(seed)
               task == UserTurn("task", r)
    <2>1. hist'[r] = Append(trimmed, task) /\ pc'[r] = "top" /\ result'[r] = "none"
      BY <1>2, <1>4 DEF Start, Goto, Set, TypeOK
    <2>2. seed \in Seq(Message) /\ Continuable(seed) /\ Plain(seed)
      <3>1. CASE p = NoRun
        <4>1. <<>> \in Seq(Message) /\ Len(<<>>) = 0
          OBVIOUS
        <4>2. WellFormed(<<>>) /\ Plain(<<>>)
          BY <4>1 DEF WellFormed, Plain
        <4> QED BY <3>1, <4>1, <4>2 DEF Continuable
      <3>2. CASE p \in Runs
        BY <3>2, RunsAssumption DEF TypeOK, ShapeInv, ShapeOK
      <3> QED BY <3>1, <3>2
    <2> HIDE DEF seed
    <2>3. /\ trimmed \in Seq(Message) /\ WellFormed(trimmed) /\ Plain(trimmed)
          /\ TurnsOf(seed) \subseteq TurnsOf(trimmed)
      BY <2>2, TrimIsPrefix, TrimMends
    <2>4. task \in Message /\ task.kind \notin {"assistant", "result"}
      <3>1. "task" \in UserKinds
        BY DEF UserKinds
      <3> QED BY <3>1, AppendedKinds
    <2> HIDE DEF trimmed, task
    <2>5. WellFormed(hist[r])' /\ Plain(hist[r])'
      BY <2>1, <2>3, <2>4, UserTurnShape
    <2>6. ShapeOK(r)'
      BY <2>1, <2>5, ShapeGoesOn
    <2>7. TurnsOf(trimmed) \subseteq TurnsOf(hist'[r])
      <3>1. /\ Len(trimmed) \in Nat /\ Len(hist'[r]) = Len(trimmed) + 1
            /\ \A i \in 1..Len(trimmed) : hist'[r][i] = trimmed[i]
        BY <2>1, <2>3, <2>4, AppendProperties, LenProperties
      <3>2. \A i \in 1..Len(trimmed) : i \in 1..Len(hist'[r])
        BY <3>1
      <3> QED BY <3>1, <3>2 DEF TurnsOf
    <2>8. p \in Runs => seed = hist[p]
      BY RunsAssumption DEF seed
    <2> QED BY <1>1, <2>3, <2>6, <2>7, <2>8
  <1> QED BY <1>3, <1>4

\* The limit checks and the boundary: a finalization prompt or a drain joins a request.
LEMMA FinalizeShape ==
    ASSUME TypeOK, NEW r \in Runs, NEW reason \in LimitReasons, NEW h \in Seq(Message),
           WellFormed(h), Plain(h), result[r] = "none", UNCHANGED result,
           FinalizeAndTruncate(r, reason, h)
    PROVE  ShapeOK(r)'
  <1>1. result'[r] = "none" /\ reason # "none"
    BY DEF LimitReasons
  <1>2. CASE r \notin JSONRuns \/ finalized[r]
    <2>1. hist'[r] = h /\ pc'[r] = "unwind" /\ trunc'[r] = reason
      BY <1>2 DEF FinalizeAndTruncate, StopLoop, Goto, Set, TypeOK
    <2> QED BY <1>1, <2>1, ShapeGoesOn
  <1>3. CASE ~(r \notin JSONRuns \/ finalized[r])
    <2>1. hist'[r] = Append(h, UserTurn("finalize", r)) /\ pc'[r] = "compact"
      BY <1>3 DEF FinalizeAndTruncate, BeginCompletion, Goto, Set, TypeOK
    <2>2. /\ UserTurn("finalize", r) \in Message
          /\ UserTurn("finalize", r).kind \notin {"assistant", "result"}
      <3>1. "finalize" \in UserKinds
        BY DEF UserKinds, HarnessKinds
      <3> QED BY <3>1, AppendedKinds
    <2>3. WellFormed(hist[r])' /\ Plain(hist[r])'
      BY <2>1, <2>2, UserTurnShape
    <2> QED BY <1>1, <2>1, <2>3, ShapeGoesOn
  <1> QED BY <1>2, <1>3

\* A drain puts its turns behind a request.
LEMMA DeliverShape ==
    ASSUME TypeOK, NEW r \in Runs, WellFormed(hist[r]), Plain(hist[r]),
           NEW T \in SUBSET queue, Deliver(r, T)
    PROVE  WellFormed(hist[r])' /\ Plain(hist[r])'
  <1>1. CASE T = {}
    BY <1>1 DEF Deliver
  <1>2. CASE T # {}
    <2>1. hist'[r] = Append(hist[r], SteerTurns(r, T)) /\ hist[r] \in Seq(Message)
      BY <1>2 DEF Deliver, Push, Set, TypeOK
    <2>2. /\ SteerTurns(r, T) \in Message
          /\ SteerTurns(r, T).kind \notin {"assistant", "result"}
      <3>1. T \in SUBSET Nat
        BY TurnsAreNumbers
      <3> QED BY <3>1, AppendedKinds
    <2> QED BY <2>1, <2>2, UserTurnShape
  <1> QED BY <1>1, <1>2

\* The top of a turn, up to the compaction.
LEMMA TurnBeginsShape ==
    ASSUME TypeOK, NEW r \in Runs, ShapeOK(r), CheckLimits(r) \/ Boundary(r)
    PROVE  ShapeOK(r)'
  <1>1. /\ WellFormed(hist[r]) /\ Plain(hist[r]) /\ result[r] = "none" /\ hist[r] \in Seq(Message)
        /\ Continuable(hist[r])
    BY DEF CheckLimits, Boundary, ShapeOK, TypeOK
  <1>2. CASE CheckLimits(r)
    <2>1. UNCHANGED result
      BY <1>2 DEF CheckLimits
    <2>2. CASE LimitReason(r) = "none"
      <3>1. hist' = hist /\ pc'[r] = "boundary"
        BY <1>2, <2>2 DEF CheckLimits, Goto, Set, TypeOK
      <3> QED BY <1>1, <2>1, <3>1, ShapeGoesOn
    <2>3. CASE LimitReason(r) # "none"
      <3>1. LimitReason(r) \in LimitReasons
        BY <2>3 DEF LimitReason, LimitReasons
      <3>2. FinalizeAndTruncate(r, LimitReason(r), hist[r])
        BY <1>2, <2>3 DEF CheckLimits
      <3> QED BY <1>1, <2>1, <3>1, <3>2, FinalizeShape
    <2> QED BY <2>2, <2>3
  <1>3. CASE Boundary(r)
    <2>1. CASE cancelled[r]
      <3>1. Fail(r, "cancelled") /\ hist' = hist
        BY <1>3, <2>1 DEF Boundary
      <3> QED BY <1>1, <3>1, FailShape DEF Failures
    <2>2. CASE ~cancelled[r]
      <3>1. /\ Deliver(r, IF r \in Steered THEN Steers ELSE {})
            /\ pc'[r] = "compact" /\ result' = result
        BY <1>3, <2>2 DEF Boundary, BeginCompletion, Goto, Set, TypeOK
      <3>2. (IF r \in Steered THEN Steers ELSE {}) \in SUBSET queue
        BY DEF Steers
      <3>3. WellFormed(hist[r])' /\ Plain(hist[r])'
        BY <1>1, <3>1, <3>2, DeliverShape
      <3> QED BY <1>1, <3>1, <3>3, ShapeGoesOn
    <2> QED BY <2>1, <2>2
  <1> QED BY <1>2, <1>3

\* Compaction: the summary cuts no turn from its results.
LEMMA CompactShape ==
    ASSUME TypeOK, NEW r \in Runs, ShapeOK(r), Compact(r)
    PROVE  ShapeOK(r)'
  <1>1. /\ WellFormed(hist[r]) /\ Plain(hist[r]) /\ result[r] = "none" /\ hist[r] \in Seq(Message)
        /\ Continuable(hist[r])
    BY DEF Compact, CompactFree, CompactSummary, CompactFail, ShapeOK, TypeOK
  <1>2. CASE CompactFree(r)
    <2>1. hist' = hist /\ result' = result /\ pc'[r] = "call"
      BY <1>2 DEF CompactFree, Goto, Set, TypeOK
    <2> QED BY <1>1, <2>1, ShapeGoesOn
  <1>3. ASSUME NEW cost \in Costs, CompactSummary(r, cost) PROVE ShapeOK(r)'
    <2>1. /\ hist'[r] = hist[r] \/ hist'[r] = Summarized(hist[r], r)
          /\ result' = result /\ pc'[r] = "call" /\ SummaryCut(hist[r]) # 0
      BY <1>3 DEF CompactSummary, Summarizes, Goto, Set, TypeOK
    <2>2. WellFormed(Summarized(hist[r], r)) /\ Plain(Summarized(hist[r], r))
      BY <1>1, <2>1, SummaryMends, PlainKept
    <2> QED BY <1>1, <2>1, <2>2, ShapeGoesOn
  <1>4. ASSUME NEW cost \in Costs, CompactFail(r, cost) PROVE ShapeOK(r)'
    <2>1. Fail(r, "error") /\ hist' = hist
      BY <1>4 DEF CompactFail
    <2> QED BY <1>1, <2>1, FailShape DEF Failures
  <1> QED BY <1>2, <1>3, <1>4 DEF Compact

(***************************************************************************)
(* A completion: the turn is put behind the request, and with it the       *)
(* prompt to continue when the output cap cut it off.  The repair has a    *)
(* history of its own.                                                     *)
(***************************************************************************)
LEMMA CompletionShape ==
    ASSUME TypeOK, NEW r \in Runs, ShapeOK(r), StageOK(r), NEW answer \in Responses,
           NEW cost \in Costs, CompletionReturns(r, answer, cost)
    PROVE  ShapeOK(r)'
  <1> DEFINE h == hist[r]
             turn == AssistantTurn(r, iters[r] + 1, answer.calls)
             prompt == UserTurn("continue", r)
             continued == half[r] = 1 /\ answer.stop = "max" /\ answer.calls = 0
  <1>1. /\ pc[r] = "call" /\ result' = result /\ stage' = stage
        /\ iters'[r] = iters[r] + 1 /\ resp'[r].calls = answer.calls
    BY DEF CompletionReturns, Set, TypeOK
  <1>2. /\ h \in Seq(Message) /\ Continuable(h) /\ Plain(h) /\ result'[r] = "none"
        /\ stage[r] # "repair" => WellFormed(h)
    BY <1>1 DEF ShapeOK, TypeOK
  <1>3. answer.calls \in Nat
    <2>1. answer.calls = 0 \/ answer.calls \in 1..MaxCalls
      BY DEF Responses
    <2>2. MaxCalls \in Nat
      BY LimitsAssumption
    <2> QED BY <2>1, <2>2
  <1>4. /\ turn \in Message /\ turn.kind = "assistant" /\ turn.n = answer.calls /\ turn.turns = {}
        /\ prompt \in Message /\ prompt.kind \notin {"assistant", "result"}
    <2>1. "continue" \in UserKinds /\ iters[r] + 1 \in Nat
      BY DEF UserKinds, HarnessKinds, TypeOK
    <2> QED BY <1>3, <2>1, AppendedKinds
  <1>5. continued =>
            /\ hist' = IF stage[r] = "repair" THEN hist ELSE Set(hist, r, h \o <<turn, prompt>>)
            /\ pc' = pc
    BY DEF CompletionReturns, AppendTurns
  <1>6. ~continued =>
            /\ hist' = IF stage[r] = "repair" THEN hist ELSE Set(hist, r, h \o <<turn>>)
            /\ \/ stage[r] = "main" /\ pc'[r] = IF answer.calls = 0 THEN "decide" ELSE "tools"
               \/ stage[r] = "final" /\ pc'[r] = "unwind"
               \/ stage[r] = "repair" /\ pc'[r] = "parse"
    BY DEF CompletionReturns, AppendTurns, StopLoop, Goto, Set, TypeOK
  <1> HIDE DEF turn, prompt
  <1>7. CASE stage[r] = "repair"
    <2>1. hist' = hist /\ (pc'[r] = "parse" \/ (pc'[r] = "call" /\ stage'[r] = "repair"))
      BY <1>1, <1>5, <1>6, <1>7
    <2>2. Continuable(hist[r])' /\ Plain(hist[r])'
      BY <1>2, <2>1
    <2> QED BY <1>2, <2>1, <2>2, ShapeEnds
  <1>8. CASE stage[r] # "repair" /\ continued
    <2>1. hist'[r] = Append(Append(h, turn), prompt) /\ pc'[r] = "call"
      <3>1. h \o <<turn, prompt>> = Append(Append(h, turn), prompt)
        BY <1>2, <1>4, AppendedTwo
      <3>2. hist'[r] = h \o <<turn, prompt>>
        BY <1>5, <1>8 DEF Set, TypeOK
      <3> QED BY <1>1, <1>5, <1>8, <3>1, <3>2
    <2>2. WellFormed(Append(h, turn)) /\ Append(h, turn) \in Seq(Message)
      BY <1>2, <1>4, <1>8, AppendWellFormed, AppendProperties
    <2>3. Plain(Append(h, turn))
      BY <1>2, <1>4, PlainKept
    <2>4. WellFormed(hist[r])' /\ Plain(hist[r])'
      BY <1>4, <2>1, <2>2, <2>3, UserTurnShape
    <2> QED BY <1>2, <2>1, <2>4, ShapeGoesOn
  <1>9. CASE stage[r] # "repair" /\ ~continued
    <2>1. hist'[r] = Append(h, turn) /\ WellFormed(h)
      <3>1. h \o <<turn>> = Append(h, turn)
        BY <1>2, <1>4, AppendedOne
      <3>2. hist'[r] = h \o <<turn>>
        BY <1>6, <1>9 DEF Set, TypeOK
      <3> QED BY <1>2, <1>9, <3>1, <3>2
    <2>2. Plain(hist[r])'
      BY <1>2, <1>4, <2>1, PlainKept
    <2>3. /\ Len(h) \in Nat /\ Len(hist'[r]) = Len(h) + 1 /\ hist'[r][Len(h) + 1] = turn
          /\ CutShort(hist[r], Len(hist[r]))'
      <3>1. Len(h) \in Nat /\ Len(hist'[r]) = Len(h) + 1 /\ hist'[r][Len(h) + 1] = turn
        BY <1>2, <1>4, <2>1, AppendProperties, LenProperties
      <3>2. CutShort(hist'[r], Len(h) + 1)
        BY <1>2, <1>4, <2>1, AppendCalls
      <3> QED BY <3>1, <3>2
    <2>4. Continuable(hist[r])'
      <3>1. Len(hist'[r]) \in 1..Len(hist'[r])
        BY <2>3
      <3> QED BY <2>3, <3>1 DEF Continuable
    <2>5. CASE answer.calls = 0 /\ stage[r] = "main"
      <3>1. WellFormed(hist[r])'
        BY <1>2, <1>4, <2>1, <2>5, AppendWellFormed
      <3>2. EndsInWord(hist[r])'
        BY <1>4, <2>3, <2>5, <3>1 DEF EndsInWord
      <3>3. pc'[r] = "decide"
        BY <1>6, <1>9, <2>5
      <3> QED BY <1>2, <2>2, <3>1, <3>2, <3>3, ShapeGoesOn
    <2>6. CASE answer.calls # 0 /\ stage[r] = "main"
      <3>1. pc'[r] = "tools"
        BY <1>6, <1>9, <2>6
      <3>2. hist'[r][Len(hist'[r])] = AssistantTurn(r, iters'[r], resp'[r].calls)
        BY <1>1, <2>3 DEF turn
      <3> QED BY <1>2, <2>2, <2>3, <2>4, <3>1, <3>2 DEF ShapeOK
    <2>7. CASE stage[r] = "final"
      <3>1. pc'[r] = "unwind" /\ r \in JSONRuns
        BY <1>6, <1>9, <2>7 DEF StageOK
      <3> QED BY <1>2, <2>2, <2>4, <3>1, ShapeEnds
    <2> QED BY <1>6, <1>9, <2>5, <2>6, <2>7
  <1> QED BY <1>7, <1>8, <1>9

\* A refused or failed completion: an overflow is answered by a summary, or the run ends.
LEMMA CompleteShape ==
    ASSUME TypeOK, NEW r \in Runs, ShapeOK(r), StageOK(r), Complete(r)
    PROVE  ShapeOK(r)'
  <1>1. /\ pc[r] = "call" /\ hist[r] \in Seq(Message) /\ Continuable(hist[r]) /\ Plain(hist[r])
        /\ result[r] = "none" /\ (stage[r] # "repair" => WellFormed(hist[r]))
    BY DEF Complete, CompletionReturns, CompletionFails, OverflowStub, OverflowSummary,
           OverflowGivesUp, Overflows, ShapeOK, TypeOK
  <1>2. ASSUME NEW answer \in Responses, NEW cost \in Costs, CompletionReturns(r, answer, cost)
        PROVE  ShapeOK(r)'
    BY <1>2, CompletionShape
  <1>3. CASE CompletionFails(r) \/ \E cost \in Costs : OverflowGivesUp(r, cost)
    <2>1. Fail(r, "error") /\ hist' = hist
      BY <1>3 DEF CompletionFails, OverflowGivesUp
    <2> QED BY <1>1, <2>1, FailShape DEF Failures
  <1>4. CASE OverflowStub(r)
    BY <1>4, ShapeFrame DEF OverflowStub
  <1>5. ASSUME NEW cost \in Costs, OverflowSummary(r, cost) PROVE ShapeOK(r)'
    <2>1. /\ hist'[r] = Summarized(hist[r], r) /\ SummaryCut(hist[r]) # 0 /\ stage[r] # "repair"
          /\ pc'[r] = "call" /\ result' = result
      BY <1>1, <1>5 DEF OverflowSummary, Summarizes, Set, TypeOK
    <2>2. WellFormed(hist[r])' /\ Plain(hist[r])'
      BY <1>1, <2>1, SummaryMends, PlainKept
    <2> QED BY <1>1, <2>1, <2>2, ShapeGoesOn
  <1> QED BY <1>2, <1>3, <1>4, <1>5 DEF Complete

\* The tool phase: all the results make a request; a cancelled one has some of them.
LEMMA ToolsShape ==
    ASSUME TypeOK, NEW r \in Runs, ShapeOK(r), NEW k \in 0..MaxCalls, ExecuteTools(r, k)
    PROVE  ShapeOK(r)'
  <1> DEFINE n == resp[r].calls
             h == hist[r]
             g == h \o ToolResults(r, iters[r], k)
  <1>1. /\ h \in Seq(Message) /\ Plain(h) /\ result[r] = "none" /\ iters[r] \in Nat /\ n \in Nat
        /\ k \in Nat /\ k \in 0..n /\ (k < n => cancelled[r])
        /\ CutShort(h, Len(h)) /\ h[Len(h)] = AssistantTurn(r, iters[r], n)
    <2>1. /\ pc[r] = "tools" /\ k \in 0..n /\ (k < n => cancelled[r])
      BY DEF ExecuteTools
    <2>2. /\ h \in Seq(Message) /\ iters[r] \in Nat /\ n \in Nat
      BY DEF TypeOK, Response
    <2> QED BY <2>1, <2>2 DEF ShapeOK
  <1>2. g \in Seq(Message) /\ Plain(g)
    <2>1. ToolResults(r, iters[r], k) \in Seq(Message)
      BY <1>1, ToolResultsType
    <2> QED BY <1>1, <2>1, PlainKept, ConcatProperties
  <1>3. CutShort(g, Len(h)) /\ (k = n => WellFormed(g))
    BY <1>1, ResultsAnswer
  <1>4. \/ cancelled[r] /\ hist'[r] = g /\ Fail(r, "cancelled")
        \/ /\ ~cancelled[r] /\ FinalizeAndTruncate(r, "tokenBudget", g) /\ UNCHANGED result
        \/ /\ ~cancelled[r] /\ hist'[r] = g /\ pc'[r] = "top" /\ UNCHANGED result
    BY DEF ExecuteTools, Goto, Set, TypeOK
  <1> HIDE DEF g, h, n
  <1>5. Continuable(g)
    <2>1. Len(h) \in 1..Len(g)
      BY <1>3 DEF CutShort
    <2> QED BY <1>3, <2>1 DEF Continuable
  <1>6. ~cancelled[r] => WellFormed(g)
    BY <1>1, <1>3
  <1>7. CASE cancelled[r] /\ hist'[r] = g /\ Fail(r, "cancelled")
    BY <1>2, <1>5, <1>7, FailShape DEF Failures
  <1>8. CASE ~cancelled[r] /\ FinalizeAndTruncate(r, "tokenBudget", g) /\ UNCHANGED result
    <2>1. "tokenBudget" \in LimitReasons
      BY DEF LimitReasons
    <2> QED BY <1>1, <1>2, <1>6, <1>8, <2>1, FinalizeShape
  <1>9. CASE ~cancelled[r] /\ hist'[r] = g /\ pc'[r] = "top" /\ UNCHANGED result
    BY <1>1, <1>2, <1>6, <1>9, ShapeGoesOn
  <1> QED BY <1>4, <1>7, <1>8, <1>9

\* A turn without calls: whatever the loop appends or returns, the word was the model's.
LEMMA DecideShape ==
    ASSUME TypeOK, NEW r \in Runs, ShapeOK(r), Refused(r) \/ DrainAll(r) \/ FinishTurn(r)
    PROVE  ShapeOK(r)'
  <1>1. /\ pc[r] = "decide" /\ EndsInWord(hist[r]) /\ WellFormed(hist[r]) /\ Plain(hist[r])
        /\ Continuable(hist[r]) /\ result[r] = "none" /\ hist[r] \in Seq(Message)
    <2>1. pc[r] = "decide"
      BY DEF Refused, DrainAll, FinishTurn
    <2> QED BY <2>1 DEF ShapeOK, EndsInWord, TypeOK
  <1>2. CASE Refused(r)
    <2>1. Fail(r, "refused") /\ hist' = hist
      BY <1>2 DEF Refused
    <2> QED BY <1>1, <2>1, FailShape DEF Failures
  <1>3. CASE DrainAll(r)
    <2>1. Deliver(r, queue) /\ pc'[r] = "top" /\ result' = result
      BY <1>3 DEF DrainAll, Goto, Set, TypeOK
    <2>2. WellFormed(hist[r])' /\ Plain(hist[r])'
      BY <1>1, <2>1, DeliverShape
    <2> QED BY <1>1, <2>1, <2>2, ShapeGoesOn
  <1>4. CASE FinishTurn(r)
    <2>1. /\ result' = result
          /\ \/ pc'[r] = "unwind" /\ hist' = hist
             \/ pc'[r] = "top" /\ hist'[r] = Append(hist[r], UserTurn("nudge", r))
      BY <1>4 DEF FinishTurn, StopLoop, Push, Goto, Set, TypeOK
    <2>2. CASE pc'[r] = "unwind" /\ hist' = hist
      <3>1. WellFormed(hist[r])' /\ Plain(hist[r])' /\ EndsInWord(hist[r])'
        BY <1>1, <2>2
      <3> QED BY <1>1, <2>1, <2>2, <3>1, ShapeGoesOn
    <2>3. CASE pc'[r] = "top" /\ hist'[r] = Append(hist[r], UserTurn("nudge", r))
      <3>1. "nudge" \in UserKinds
        BY DEF UserKinds, HarnessKinds
      <3>2. WellFormed(hist[r])' /\ Plain(hist[r])'
        BY <1>1, <2>3, <3>1, AppendedKinds, UserTurnShape
      <3> QED BY <1>1, <2>1, <2>3, <3>2, ShapeGoesOn
    <2> QED BY <2>1, <2>2, <2>3
  <1> QED BY <1>2, <1>3, <1>4

\* The return, the rest of RunJSON, and a panic keep the history as it is.
LEMMA ReturnShape ==
    ASSUME TypeOK, NEW r \in Runs, ShapeOK(r), StageOK(r),
           Unwind(r) \/ ParseAnswer(r) \/ HookPanics(r)
    PROVE  ShapeOK(r)'
  <1>1. hist' = hist /\ Continuable(hist[r])' /\ Plain(hist[r])'
    <2>1. hist' = hist
      BY DEF Unwind, ParseAnswer, HookPanics
    <2> QED BY <2>1 DEF ShapeOK
  <1>2. CASE Unwind(r)
    <2>1. pc[r] = "unwind" /\ trunc' = trunc
      BY <1>2 DEF Unwind
    <2>2. CASE result[r] = "none" /\ r \in JSONRuns
      <3>1. pc'[r] = "parse" /\ result'[r] = "none"
        BY <1>2, <2>2 DEF Unwind, Goto, Set, TypeOK
      <3> QED BY <1>1, <3>1, ShapeEnds
    <2>3. CASE ~(result[r] = "none" /\ r \in JSONRuns)
      <3>1. /\ pc'[r] = "done"
            /\ result'[r] = IF result[r] # "none" THEN result[r]
                            ELSE IF trunc[r] = "none" THEN "answer" ELSE "incomplete"
        BY <1>2, <2>3 DEF Unwind, Goto, Set, TypeOK
      <3>2. result[r] # "answer"
        BY <2>1 DEF ShapeOK
      <3>3. ASSUME result'[r] = "answer" PROVE r \in JSONRuns \/ EndsInWord(hist[r])'
        <4>1. result[r] = "none" /\ trunc[r] = "none"
          BY <3>1, <3>2, <3>3
        <4> QED BY <1>1, <2>1, <4>1 DEF ShapeOK
      <3> QED BY <1>1, <3>1, <3>3, ShapeEnds
    <2> QED BY <2>2, <2>3
  <1>3. CASE ParseAnswer(r)
    <2>1. r \in JSONRuns /\ result[r] = "none"
      BY <1>3 DEF ParseAnswer, StageOK, ShapeOK
    <2>2. \/ pc'[r] = "done"
          \/ pc'[r] = "call" /\ stage'[r] = "repair" /\ result' = result
      BY <1>3 DEF ParseAnswer, BeginCompletion, Goto, Set, TypeOK
    <2> QED BY <1>1, <2>1, <2>2, ShapeEnds
  <1>4. CASE HookPanics(r)
    <2>1. Fail(r, "panic")
      BY <1>4 DEF HookPanics
    <2> QED BY <1>1, <2>1, FailShape DEF Failures
  <1> QED BY <1>2, <1>3, <1>4

(***************************************************************************)
(* The inductive invariant about the conversations: every history is a     *)
(* request or is cut short at its last turn, for any number of runs, of    *)
(* continuations and of compactions.                                       *)
(***************************************************************************)
THEOREM HistoriesKeepShape == Spec => []ShapeInv
  <1>1. Init => ShapeInv
    <2> SUFFICES ASSUME Init, NEW r \in Runs PROVE ShapeOK(r)
      BY DEF ShapeInv
    <2>1. pc[r] = "idle" /\ hist[r] = <<>> /\ result[r] = "none"
      BY DEF Init
    <2>2. WellFormed(<<>>) /\ Plain(<<>>)
      BY DEF WellFormed, Plain
    <2> QED BY <2>1, <2>2 DEF ShapeOK, Continuable
  <1>2. TypeOK /\ Accounts /\ ShapeInv /\ [Next]_vars => ShapeInv'
    <2> SUFFICES ASSUME TypeOK, Accounts, ShapeInv, [Next]_vars PROVE ShapeInv'
      OBVIOUS
    <2>1. \A r \in Runs : StageOK(r) /\ ShapeOK(r)
      BY DEF Accounts, ShapeInv
    <2>2. ASSUME NEW r \in Runs, Apart(r), ShapeOK(r)' PROVE ShapeInv'
      <3>1. \A q \in Runs \ {r} : ShapeOK(q)'
        BY <2>1, <2>2, ShapeFrame DEF Apart
      <3> QED BY <2>2, <3>1 DEF ShapeInv
    <2>3. ASSUME NEW r \in Runs, RunStep(r) PROVE ShapeInv'
      <3>1. Apart(r)
        BY <2>1, <2>3, RunStepApart
      <3>2. ShapeOK(r)'
        BY <2>1, <2>3, TurnBeginsShape, CompactShape, CompleteShape, ToolsShape, DecideShape,
           ReturnShape DEF RunStep
      <3> QED BY <2>2, <3>1, <3>2
    <2>4. ASSUME NEW r \in Runs, NEW p \in Runs \cup {NoRun}, Start(r, p) PROVE ShapeInv'
      BY <2>2, <2>4, StartShape
    <2>5. CASE \/ \E r \in Runs : Cancel(r)
               \/ \E kind \in TurnKinds : Enqueue(kind)
               \/ \E cost \in Costs : AddSpend(cost)
               \/ AllDone \/ UNCHANGED vars
      <3>1. UNCHANGED <<pc, stage, hist, iters, resp, result, trunc>>
        BY <2>5 DEF Cancel, Enqueue, AddSpend, AllDone, vars, runVars
      <3> QED BY <2>1, <3>1, ShapeFrame DEF ShapeInv
    <2> QED BY <2>3, <2>4, <2>5 DEF Next
  <1> QED BY <1>1, <1>2, TypeCorrect, AccountsHold, PTL DEF Spec

(***************************************************************************)
(* Every request of a run is well formed, however often the conversation   *)
(* was cancelled in a tool phase, continued, or summarized.                *)
(***************************************************************************)
THEOREM RequestsWellFormed == Spec => []WireWellFormed
  <1>1. ShapeInv => WireWellFormed
    BY DEF ShapeInv, ShapeOK, WireWellFormed
  <1> QED BY <1>1, HistoriesKeepShape, PTL

(***************************************************************************)
(* A Run that returns an answer has the model's last word: nothing was     *)
(* delivered behind it and no call is left unanswered.                     *)
(***************************************************************************)
THEOREM AnswersAreLastWords == Spec => []AnswerIsLastWord
  <1>1. ShapeInv => AnswerIsLastWord
    BY DEF ShapeInv, ShapeOK, AnswerIsLastWord, EndsInWord
  <1> QED BY <1>1, HistoriesKeepShape, PTL

(***************************************************************************)
(* Continue drops no steering turn: what trimDanglingToolTurn removes is   *)
(* an assistant turn and results.                                          *)
(***************************************************************************)
THEOREM ContinueLosesNoTurn == Spec => ContinueKeepsTurns
  <1>1. ASSUME TypeOK, Accounts, ShapeInv, [Next]_vars,
               NEW r \in Runs, NEW p \in Runs, pc[r] = "idle", pc'[r] = "top", parent'[r] = p
        PROVE  TurnsOf(hist[p]) \subseteq TurnsOf(hist'[r])
    <2>1. ASSUME NEW q \in Runs, RunStep(q) PROVE FALSE
      <3>1. q # r
        BY <1>1, <2>1
           DEF RunStep, CheckLimits, Boundary, Compact, CompactFree, CompactSummary, CompactFail,
               Complete, CompletionReturns, CompletionFails, OverflowStub, OverflowSummary,
               OverflowGivesUp, Overflows, ExecuteTools, Refused, DrainAll, FinishTurn, Unwind,
               ParseAnswer, HookPanics
      <3>2. Apart(q)
        BY <1>1, <2>1, RunStepApart DEF Accounts
      <3> QED BY <1>1, <3>1, <3>2 DEF Apart
    <2>2. ASSUME NEW q \in Runs, NEW s \in Runs \cup {NoRun}, Start(q, s)
          PROVE  TurnsOf(hist[p]) \subseteq TurnsOf(hist'[r])
      <3>1. Apart(q) /\ (pc'[q] = "top" /\ s \in Runs => TurnsOf(hist[s]) \subseteq TurnsOf(hist'[q]))
        BY <1>1, <2>2, StartShape
      <3>2. q = r
        BY <1>1, <3>1 DEF Apart
      <3>3. parent'[q] = s
        BY <1>1, <2>2 DEF Start, Set, TypeOK
      <3> QED BY <1>1, <3>1, <3>2, <3>3
    <2>3. CASE \/ \E q \in Runs : Cancel(q)
               \/ \E kind \in TurnKinds : Enqueue(kind)
               \/ \E cost \in Costs : AddSpend(cost)
               \/ AllDone \/ UNCHANGED vars
      <3>1. UNCHANGED pc
        BY <2>3 DEF Cancel, Enqueue, AddSpend, AllDone, vars, runVars
      <3> QED BY <1>1, <3>1
    <2> QED BY <1>1, <2>1, <2>2, <2>3 DEF Next
  <1>2. TypeOK /\ Accounts /\ ShapeInv /\ [Next]_vars =>
            [\A r, p \in Runs : pc[r] = "idle" /\ pc'[r] = "top" /\ parent'[r] = p
                => TurnsOf(hist[p]) \subseteq TurnsOf(hist'[r])]_vars
    BY <1>1
  <1> QED BY <1>2, TypeCorrect, AccountsHold, HistoriesKeepShape, PTL
          DEF Spec, ContinueKeepsTurns
=============================================================================
