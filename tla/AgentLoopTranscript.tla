------------------------- MODULE AgentLoopTranscript -------------------------
(***************************************************************************)
(* What the transcript of AgentLoop looks like, for every value of its     *)
(* constants: every call is answered, a halting result ends its run, a     *)
(* skipped call is explained by a user message, and no message is lost or  *)
(* said twice.                                                             *)
(***************************************************************************)
EXTENDS AgentLoopProofs, FiniteSetTheorems

-----------------------------------------------------------------------------
(* Transcripts.  The first n entries of t are paired when every assistant  *)
(* message among them is followed, among them, by one result for each of   *)
(* its calls, and every result among them belongs to such a message.       *)

ResultsOf(t, a) == (a + 1)..(a + t[a].calls)

PairedTo(t, n) ==
    /\ \A a \in 1..n : t[a].role = "assistant" =>
          /\ a + t[a].calls <= n
          /\ \A k \in ResultsOf(t, a) : /\ t[k].role = "toolResult"
                                        /\ t[k].turn = t[a].turn
                                        /\ t[k].call \in 1..t[a].calls
          /\ \A i \in 1..t[a].calls : \E k \in ResultsOf(t, a) : t[k].call = i
    /\ \A k \in 1..n : t[k].role = "toolResult" =>
          \E a \in 1..(k - 1) : t[a].role = "assistant" /\ k \in ResultsOf(t, a)

(* The batch of the message at a skipped a call and did not halt.          *)
Skips(t, a) ==
    /\ t[a].role = "assistant"
    /\ \E k \in ResultsOf(t, a) : t[k].outcome = "skipped"
    /\ \A k \in ResultsOf(t, a) : t[k].outcome # "halt"

(* Such a batch is followed by a user message; the last one of the first n *)
(* entries may still wait for it if w.                                     *)
ExplainedTo(t, n, w) ==
    \A a \in 1..n : Skips(t, a) =>
       LET next == a + t[a].calls + 1
       IN  \/ next \in 1..n /\ t[next].role = "user"
           \/ w /\ next = n + 1

(* The interrupting messages are on their way into the transcript.         *)
Awaited ==
    \/ pc = "turnEnd" /\ steeringAfter # <<>>
    \/ pc = "inner" /\ pending # <<>>

(* The assistant message at c is the one whose calls are being executed:   *)
(* the results so far stand behind it, one for each call that has one.     *)
OpenAt(c) ==
    /\ c \in 1..Len(transcript)
    /\ PairedTo(transcript, c - 1)
    /\ ExplainedTo(transcript, c - 1, FALSE)
    /\ transcript[c].role = "assistant"
    /\ transcript[c].turn = turn
    /\ transcript[c].calls = Len(calls)
    /\ \A k \in (c + 1)..Len(transcript) :
          /\ transcript[k].role = "toolResult"
          /\ transcript[k].turn = turn
          /\ transcript[k].call \in 1..Len(calls)
          /\ transcript[k].outcome = calls[transcript[k].call].result
    /\ \A k, l \in (c + 1)..Len(transcript) :
          transcript[k].call = transcript[l].call => k = l
    /\ \A i \in 1..Len(calls) : calls[i].result # "none" =>
          \E k \in (c + 1)..Len(transcript) : transcript[k].call = i

(* What a batch has recorded of its calls.                                 *)
ResultInv ==
    /\ pc \in {"streaming", "resolve"} => \A i \in DOMAIN calls : calls[i].result = "none"
    /\ pc = "batch" => \A i \in DOMAIN calls :
          /\ calls[i].result = "none" <=> calls[i].step \in {"waiting", "running"}
          /\ calls[i].result = "skipped" => triggered
    /\ pc = "batch" /\ triggered => steeringAfter # <<>>

TranscriptInv ==
    /\ pc \in {"resolve", "batch"} => \E c \in Nat : OpenAt(c)
    /\ pc \notin {"resolve", "batch"} =>
          /\ PairedTo(transcript, Len(transcript))
          /\ ExplainedTo(transcript, Len(transcript), Awaited)

(* A halting result of a run stands only where the run has ended or is     *)
(* about to, and no later message of its run does.                         *)
HaltsIn(t, k, r) ==
    t[k].role = "toolResult" /\ t[k].outcome = "halt" /\ t[k].run = r

HaltFree(t, r) == \A k \in 1..Len(t) : ~HaltsIn(t, k, r)
RunsUpTo(t, r) == \A k \in 1..Len(t) : t[k].role # "user" => t[k].run <= r

HaltsLast(t) ==
    \A k, a \in 1..Len(t) :
       k < a /\ t[a].role = "assistant" => ~HaltsIn(t, k, t[a].run)

Ending == pc = "idle" \/ (pc = "batch" /\ Halted)

HaltInv ==
    /\ RunsUpTo(transcript, runs)
    /\ ~Ending => HaltFree(transcript, runs)
    /\ HaltsLast(transcript)

-----------------------------------------------------------------------------
(* Facts about entries, prefixes and extensions.                           *)

LEMMA EntryFields ==
    ASSUME NEW t \in Seq(Entries)
    PROVE  /\ Len(t) \in Nat
           /\ DOMAIN t = 1..Len(t)
           /\ \A k \in 1..Len(t) :
                 \/ t[k].role = "user" /\ t[k].msg \in Msgs
                 \/ /\ t[k].role = "assistant"
                    /\ t[k].run \in Nat /\ t[k].turn \in Nat /\ t[k].calls \in Nat
                 \/ /\ t[k].role = "toolResult"
                    /\ t[k].run \in Nat /\ t[k].turn \in Nat /\ t[k].call \in Nat
                    /\ t[k].outcome \in Outcomes
<1>1. Len(t) \in Nat /\ DOMAIN t = 1..Len(t)
  BY LenProperties
<1>2. \A k \in 1..Len(t) : t[k] \in Entries
  BY ElementOfSeq
<1> QED
  BY <1>1, <1>2 DEF Entries

(* Appending a sequence of entries leaves the earlier ones in place.       *)
LEMMA Extension ==
    ASSUME NEW t \in Seq(Entries), NEW es \in Seq(Entries)
    PROVE  /\ t \o es \in Seq(Entries)
           /\ Len(t \o es) = Len(t) + Len(es)
           /\ Len(t) \in Nat /\ Len(es) \in Nat
           /\ \A k \in 1..Len(t) : (t \o es)[k] = t[k]
           /\ \A k \in 1..Len(es) : (t \o es)[Len(t) + k] = es[k]
<1>1. Len(t) \in Nat /\ Len(es) \in Nat
  BY LenProperties
<1>2. /\ t \o es \in Seq(Entries)
      /\ Len(t \o es) = Len(t) + Len(es)
      /\ \A k \in 1..Len(t) + Len(es) :
            (t \o es)[k] = IF k <= Len(t) THEN t[k] ELSE es[k - Len(t)]
  BY ConcatProperties
<1>3. \A k \in 1..Len(t) : (t \o es)[k] = t[k]
  BY <1>1, <1>2
<1>4. \A k \in 1..Len(es) : (t \o es)[Len(t) + k] = es[k]
  <2> TAKE k \in 1..Len(es)
  <2>1. Len(t) + k \in 1..Len(t) + Len(es) /\ ~(Len(t) + k <= Len(t))
    BY <1>1
  <2>2. (Len(t) + k) - Len(t) = k
    BY <1>1
  <2> QED
    BY <1>2, <2>1, <2>2
<1> QED
  BY <1>1, <1>2, <1>3, <1>4

LEMMA ExtensionByOne ==
    ASSUME NEW t \in Seq(Entries), NEW e \in Entries
    PROVE  /\ Append(t, e) \in Seq(Entries)
           /\ Len(t) \in Nat
           /\ Len(Append(t, e)) = Len(t) + 1
           /\ \A k \in 1..Len(t) : Append(t, e)[k] = t[k]
           /\ Append(t, e)[Len(t) + 1] = e
BY AppendProperties, LenProperties

(* Whether a prefix is paired depends on that prefix alone.                *)
LEMMA PairedPrefix ==
    ASSUME NEW t \in Seq(Entries), NEW u, NEW n \in 0..Len(t),
           \A k \in 1..n : u[k] = t[k], PairedTo(t, n)
    PROVE  PairedTo(u, n)
<1>a. /\ Len(t) \in Nat
      /\ \A k \in 1..n : t[k].role = "assistant" => t[k].calls \in Nat
  BY EntryFields
<1>1. ASSUME NEW a \in 1..n, u[a].role = "assistant"
      PROVE  /\ a + u[a].calls <= n
             /\ \A k \in ResultsOf(u, a) : /\ u[k].role = "toolResult"
                                           /\ u[k].turn = u[a].turn
                                           /\ u[k].call \in 1..u[a].calls
             /\ \A i \in 1..u[a].calls : \E k \in ResultsOf(u, a) : u[k].call = i
  <2>1. u[a] = t[a] /\ t[a].calls \in Nat /\ a + t[a].calls <= n
    BY <1>a, <1>1 DEF PairedTo
  <2>2. ResultsOf(u, a) = ResultsOf(t, a) /\ ResultsOf(t, a) \subseteq 1..n
    BY <1>a, <2>1 DEF ResultsOf
  <2>3. /\ \A k \in ResultsOf(t, a) : /\ t[k].role = "toolResult"
                                      /\ t[k].turn = t[a].turn
                                      /\ t[k].call \in 1..t[a].calls
        /\ \A i \in 1..t[a].calls : \E k \in ResultsOf(t, a) : t[k].call = i
    BY <1>1, <2>1 DEF PairedTo
  <2> QED
    BY <2>1, <2>2, <2>3
<1>2. ASSUME NEW k \in 1..n, u[k].role = "toolResult"
      PROVE  \E a \in 1..(k - 1) : u[a].role = "assistant" /\ k \in ResultsOf(u, a)
  <2>1. PICK a \in 1..(k - 1) : t[a].role = "assistant" /\ k \in ResultsOf(t, a)
    BY <1>2 DEF PairedTo
  <2>2. u[a] = t[a]
    BY <1>a, <2>1
  <2> QED
    BY <2>1, <2>2 DEF ResultsOf
<1> QED
  BY <1>1, <1>2 DEF PairedTo

(* User messages behind a paired prefix leave it paired.                   *)
LEMMA PairedUsers ==
    ASSUME NEW t \in Seq(Entries), NEW n \in 0..Len(t), NEW m \in n..Len(t),
           PairedTo(t, n), \A k \in (n + 1)..m : t[k].role = "user"
    PROVE  PairedTo(t, m)
<1>a. Len(t) \in Nat /\ n \in Nat /\ m \in Nat /\ n <= m
  BY EntryFields
<1>b. \A k \in 1..m : k \in 1..n \/ t[k].role = "user"
  BY <1>a
<1>c. \A k \in 1..n : t[k].role = "assistant" => t[k].calls \in Nat
  BY <1>a, EntryFields
<1>1. ASSUME NEW a \in 1..m, t[a].role = "assistant"
      PROVE  a \in 1..n /\ a + t[a].calls <= m
  BY <1>1, <1>a, <1>b, <1>c DEF PairedTo
<1>2. \A k \in 1..m : t[k].role = "toolResult" => k \in 1..n
  BY <1>b
<1> QED
  BY <1>1, <1>2 DEF PairedTo

(* A message behind a paired prefix with its results behind it.            *)
LEMMA PairedBatch ==
    ASSUME NEW t \in Seq(Entries), NEW c \in 1..Len(t), t[c].role = "assistant",
           PairedTo(t, c - 1), c + t[c].calls <= Len(t),
           \A k \in ResultsOf(t, c) : /\ t[k].role = "toolResult"
                                      /\ t[k].turn = t[c].turn
                                      /\ t[k].call \in 1..t[c].calls,
           \A i \in 1..t[c].calls : \E k \in ResultsOf(t, c) : t[k].call = i
    PROVE  PairedTo(t, c + t[c].calls)
<1> DEFINE m == c + t[c].calls
<1>a. /\ Len(t) \in Nat /\ t[c].calls \in Nat /\ c \in Nat \ {0} /\ m \in Nat
      /\ \A k \in 1..Len(t) : t[k].role = "assistant" => t[k].calls \in Nat
  BY EntryFields
<1>b. \A k \in 1..m : k \in 1..(c - 1) \/ k = c \/ k \in ResultsOf(t, c)
  BY <1>a DEF ResultsOf
<1>1. ASSUME NEW a \in 1..m, t[a].role = "assistant"
      PROVE  /\ a + t[a].calls <= m
             /\ \A k \in ResultsOf(t, a) : /\ t[k].role = "toolResult"
                                           /\ t[k].turn = t[a].turn
                                           /\ t[k].call \in 1..t[a].calls
             /\ \A i \in 1..t[a].calls : \E k \in ResultsOf(t, a) : t[k].call = i
  <2>1. CASE a = c
    BY <1>a, <2>1
  <2>2. CASE a \in 1..(c - 1)
    <3>1. a + t[a].calls <= c - 1 /\ t[a].calls \in Nat
      BY <1>1, <1>a, <2>2 DEF PairedTo
    <3>2. a + t[a].calls <= m
      BY <1>a, <3>1
    <3> QED
      BY <1>1, <2>2, <3>2 DEF PairedTo
  <2> QED
    BY <1>1, <1>b, <2>1, <2>2
<1>2. ASSUME NEW k \in 1..m, t[k].role = "toolResult"
      PROVE  \E a \in 1..(k - 1) : t[a].role = "assistant" /\ k \in ResultsOf(t, a)
  <2>1. CASE k \in 1..(c - 1)
    BY <1>2, <2>1 DEF PairedTo
  <2>2. CASE k \in ResultsOf(t, c)
    <3>1. c \in 1..(k - 1)
      BY <1>a, <2>2 DEF ResultsOf
    <3> QED
      BY <2>2, <3>1
  <2> QED
    BY <1>2, <1>b, <2>1, <2>2
<1> QED
  BY <1>1, <1>2 DEF PairedTo

LEMMA ExplainedPrefix ==
    ASSUME NEW t \in Seq(Entries), NEW u, NEW n \in 0..Len(t), NEW w \in BOOLEAN,
           \A k \in 1..n : u[k] = t[k], PairedTo(t, n), ExplainedTo(t, n, w)
    PROVE  ExplainedTo(u, n, w)
<1>a. /\ Len(t) \in Nat
      /\ \A k \in 1..n : t[k].role = "assistant" => t[k].calls \in Nat
  BY EntryFields
<1> SUFFICES ASSUME NEW a \in 1..n, Skips(u, a)
             PROVE  \/ /\ a + u[a].calls + 1 \in 1..n
                       /\ u[a + u[a].calls + 1].role = "user"
                    \/ w /\ a + u[a].calls + 1 = n + 1
  BY DEF ExplainedTo
<1>1. u[a] = t[a] /\ t[a].role = "assistant"
  BY DEF Skips
<1>2. t[a].calls \in Nat /\ a + t[a].calls <= n
  BY <1>a, <1>1 DEF PairedTo
<1>3. ResultsOf(u, a) = ResultsOf(t, a) /\ ResultsOf(t, a) \subseteq 1..n
  BY <1>a, <1>1, <1>2 DEF ResultsOf
<1>4. Skips(t, a)
  BY <1>1, <1>3 DEF Skips
<1>5. \/ a + t[a].calls + 1 \in 1..n /\ t[a + t[a].calls + 1].role = "user"
      \/ w /\ a + t[a].calls + 1 = n + 1
  BY <1>4 DEF ExplainedTo
<1> QED
  BY <1>1, <1>5

(* User messages come behind it: they are the explanation.                 *)
LEMMA ExplainedUsers ==
    ASSUME NEW t \in Seq(Entries), NEW n \in 0..Len(t), NEW m \in n..Len(t),
           NEW w \in BOOLEAN, NEW v \in BOOLEAN,
           PairedTo(t, n), ExplainedTo(t, n, w), \A k \in (n + 1)..m : t[k].role = "user",
           w /\ ~v => m > n
    PROVE  ExplainedTo(t, m, v)
<1>a. Len(t) \in Nat /\ n \in Nat /\ m \in Nat /\ n <= m
  BY EntryFields
<1>b. \A k \in 1..m : k \in 1..n \/ t[k].role = "user"
  BY <1>a
<1> SUFFICES ASSUME NEW a \in 1..m, Skips(t, a)
             PROVE  \/ a + t[a].calls + 1 \in 1..m /\ t[a + t[a].calls + 1].role = "user"
                    \/ v /\ a + t[a].calls + 1 = m + 1
  BY DEF ExplainedTo
<1>1. a \in 1..n
  BY <1>b DEF Skips
<1>2. CASE a + t[a].calls + 1 \in 1..n /\ t[a + t[a].calls + 1].role = "user"
  BY <1>a, <1>2
<1>3. CASE w /\ a + t[a].calls + 1 = n + 1
  <2>1. CASE m > n
    BY <1>a, <1>3, <2>1
  <2>2. CASE m = n
    BY <1>a, <1>3, <2>2
  <2> QED
    BY <1>a, <2>1, <2>2
<1> QED
  BY <1>1, <1>2, <1>3 DEF ExplainedTo

(* A batch comes behind it, which may wait for its explanation.            *)
LEMMA ExplainedBatch ==
    ASSUME NEW t \in Seq(Entries), NEW c \in 1..Len(t), NEW w \in BOOLEAN,
           t[c].role = "assistant",
           c + t[c].calls <= Len(t),
           \A k \in ResultsOf(t, c) : t[k].role = "toolResult",
           ExplainedTo(t, c - 1, FALSE), Skips(t, c) => w
    PROVE  ExplainedTo(t, c + t[c].calls, w)
<1> DEFINE m == c + t[c].calls
<1>a. Len(t) \in Nat /\ t[c].calls \in Nat /\ c \in Nat \ {0} /\ m \in Nat
  BY EntryFields
<1>b. \A k \in 1..m : k \in 1..(c - 1) \/ k = c \/ k \in ResultsOf(t, c)
  BY <1>a DEF ResultsOf
<1> SUFFICES ASSUME NEW a \in 1..m, Skips(t, a)
             PROVE  \/ a + t[a].calls + 1 \in 1..m /\ t[a + t[a].calls + 1].role = "user"
                    \/ w /\ a + t[a].calls + 1 = m + 1
  BY DEF ExplainedTo
<1>1. CASE a = c
  BY <1>1
<1>2. CASE a \in 1..(c - 1)
  <2>1. a + t[a].calls + 1 \in 1..(c - 1) /\ t[a + t[a].calls + 1].role = "user"
    BY <1>2 DEF ExplainedTo
  <2>2. 1..(c - 1) \subseteq 1..m
    BY <1>a
  <2> QED
    BY <2>1, <2>2
<1> QED
  BY <1>b, <1>1, <1>2 DEF Skips

-----------------------------------------------------------------------------
(* What a step adds to the transcript.                                     *)

LEMMA SaysUsers ==
    ASSUME NEW t \in Seq(Entries), NEW ms \in Seq(Msgs)
    PROVE  /\ t \o UserMsgs(ms) \in Seq(Entries)
           /\ Len(t) \in Nat /\ Len(ms) \in Nat
           /\ Len(t \o UserMsgs(ms)) = Len(t) + Len(ms)
           /\ \A k \in 1..Len(t) : (t \o UserMsgs(ms))[k] = t[k]
           /\ \A i \in 1..Len(ms) : (t \o UserMsgs(ms))[Len(t) + i] = UserMsg(ms[i])
           /\ \A k \in (Len(t) + 1)..(Len(t) + Len(ms)) :
                 (t \o UserMsgs(ms))[k].role = "user"
<1> DEFINE es == UserMsgs(ms)
<1>1. es \in Seq(Entries)
  BY UserMsgsType
<1>2. Len(ms) \in Nat /\ DOMAIN ms = 1..Len(ms) /\ Len(t) \in Nat
  BY LenProperties
<1>3. DOMAIN es = 1..Len(ms) /\ \A i \in 1..Len(ms) : es[i] = UserMsg(ms[i])
  BY <1>2 DEF UserMsgs
<1>4. Len(es) = Len(ms)
  <2>1. Len(es) \in Nat /\ DOMAIN es = 1..Len(es)
    BY <1>1, LenProperties
  <2> QED
    BY <1>2, <1>3, <2>1
<1> HIDE DEF es
<1>5. /\ t \o es \in Seq(Entries)
      /\ Len(t \o es) = Len(t) + Len(es)
      /\ \A k \in 1..Len(t) : (t \o es)[k] = t[k]
      /\ \A k \in 1..Len(es) : (t \o es)[Len(t) + k] = es[k]
  BY <1>1, Extension
<1>6. \A i \in 1..Len(ms) : (t \o es)[Len(t) + i] = UserMsg(ms[i])
  BY <1>3, <1>4, <1>5
<1>7. \A k \in (Len(t) + 1)..(Len(t) + Len(ms)) : (t \o es)[k].role = "user"
  <2> TAKE k \in (Len(t) + 1)..(Len(t) + Len(ms))
  <2>1. k - Len(t) \in 1..Len(ms) /\ k = Len(t) + (k - Len(t))
    BY <1>2
  <2>2. (t \o es)[k] = UserMsg(ms[k - Len(t)])
    BY <1>6, <2>1
  <2> QED
    BY <2>2 DEF UserMsg
<1> QED
  BY <1>2, <1>4, <1>5, <1>6, <1>7 DEF es

(* A failed message is closed and answered at once.                        *)
LEMMA FailedMessage ==
    ASSUME TypeOK, StreamFails
    PROVE  /\ transcript' \in Seq(Entries)
           /\ Len(transcript) \in Nat /\ Len(calls) \in Nat
           /\ Len(transcript') = Len(transcript) + 1 + Len(calls)
           /\ \A k \in 1..Len(transcript) : transcript'[k] = transcript[k]
           /\ transcript'[Len(transcript) + 1] = Assistant(Len(calls), StopReason)
           /\ \A i \in 1..Len(calls) :
                 transcript'[Len(transcript) + 1 + i] = Result(i, "aborted")
<1>a. /\ Len(calls) \in Nat /\ DOMAIN calls = 1..Len(calls)
      /\ transcript \in Seq(Entries) /\ Len(transcript) \in Nat
  BY CallsDomain, LenProperties DEF TypeOK
<1> DEFINE A  == Assistant(Len(calls), StopReason)
           es == [i \in 1..Len(calls) |-> Result(i, "aborted")]
           t1 == Append(transcript, A)
<1>1. A \in Entries
  BY <1>a, AssistantType DEF StopReason
<1>2. es \in Seq(Entries) /\ Len(es) = Len(calls)
  <2>1. \A i \in 1..Len(calls) : Result(i, "aborted") \in Entries
    BY <1>a, ResultType DEF Outcomes
  <2>2. es \in [1..Len(calls) -> Entries]
    BY <2>1
  <2>3. es \in Seq(Entries)
    BY <1>a, <2>2, EntriesFor
  <2> QED
    BY <1>a, <2>3
<1>3. \A i \in 1..Len(calls) : es[i] = Result(i, "aborted")
  OBVIOUS
<1>4. transcript' = t1 \o es
  BY <1>a DEF StreamFails
<1> HIDE DEF A, es
<1>5. /\ t1 \in Seq(Entries) /\ Len(t1) = Len(transcript) + 1
      /\ \A k \in 1..Len(transcript) : t1[k] = transcript[k]
      /\ t1[Len(transcript) + 1] = A
  BY <1>a, <1>1, ExtensionByOne
<1> HIDE DEF t1
<1>6. /\ t1 \o es \in Seq(Entries) /\ Len(t1 \o es) = Len(t1) + Len(es)
      /\ \A k \in 1..Len(t1) : (t1 \o es)[k] = t1[k]
      /\ \A k \in 1..Len(es) : (t1 \o es)[Len(t1) + k] = es[k]
  BY <1>2, <1>5, Extension
<1>7. transcript' \in Seq(Entries) /\ Len(transcript') = Len(transcript) + 1 + Len(calls)
  BY <1>a, <1>2, <1>4, <1>5, <1>6
<1>8. \A k \in 1..Len(transcript) : transcript'[k] = transcript[k]
  BY <1>a, <1>4, <1>5, <1>6
<1>9. transcript'[Len(transcript) + 1] = A
  BY <1>a, <1>4, <1>5, <1>6
<1>10. \A i \in 1..Len(calls) :
          transcript'[Len(transcript) + 1 + i] = Result(i, "aborted")
  <2> TAKE i \in 1..Len(calls)
  <2>1. (t1 \o es)[Len(t1) + i] = es[i]
    BY <1>2, <1>6
  <2>2. es[i] = Result(i, "aborted")
    BY <1>3
  <2> QED
    BY <1>4, <1>5, <2>1, <2>2
<1> QED
  BY <1>a, <1>7, <1>8, <1>9, <1>10 DEF A

(* A settled batch gets a result for each call that has none, once.        *)
LEMMA SettledBatch ==
    ASSUME TypeOK, SettleBatch
    PROVE  \E n \in Nat : \E rest \in [1..n -> 1..Len(calls)] :
              /\ transcript' \in Seq(Entries)
              /\ Len(transcript) \in Nat /\ Len(calls) \in Nat
              /\ Len(transcript') = Len(transcript) + n
              /\ \A k \in 1..Len(transcript) : transcript'[k] = transcript[k]
              /\ \A k \in 1..n :
                    transcript'[Len(transcript) + k] = Result(rest[k], "skipped")
              /\ \A k \in 1..n : calls[rest[k]].result = "none"
              /\ \A k, l \in 1..n : rest[k] = rest[l] => k = l
              /\ \A i \in 1..Len(calls) : calls[i].result = "none" =>
                    \E k \in 1..n : rest[k] = i
<1>a. /\ Len(calls) \in Nat /\ DOMAIN calls = 1..Len(calls)
      /\ transcript \in Seq(Entries) /\ Len(transcript) \in Nat
  BY CallsDomain, LenProperties DEF TypeOK
<1>1. PICK n \in 0..Len(calls) : \E rest \in [1..n -> DOMAIN calls] :
         /\ InSourceOrder(rest, Unanswered)
         /\ transcript' = transcript \o [k \in 1..n |-> Result(rest[k], "skipped")]
  BY DEF SettleBatch
<1>2. PICK rest \in [1..n -> DOMAIN calls] :
         /\ InSourceOrder(rest, Unanswered)
         /\ transcript' = transcript \o [k \in 1..n |-> Result(rest[k], "skipped")]
  BY <1>1
<1>b. n \in Nat /\ rest \in [1..n -> 1..Len(calls)]
  BY <1>a
<1> DEFINE es == [k \in 1..n |-> Result(rest[k], "skipped")]
<1>3. es \in Seq(Entries) /\ Len(es) = n /\ \A k \in 1..n : es[k] = Result(rest[k], "skipped")
  <2>1. \A k \in 1..n : rest[k] \in Nat
    BY <1>a, <1>b
  <2>2. \A k \in 1..n : Result(rest[k], "skipped") \in Entries
    BY <2>1, ResultType DEF Outcomes
  <2>3. es \in [1..n -> Entries]
    BY <2>2
  <2>4. es \in Seq(Entries)
    BY <1>b, <2>3, EntriesFor
  <2> QED
    BY <1>b, <2>4
<1>4. transcript' = transcript \o es
  BY <1>2
<1> HIDE DEF es
<1>5. /\ transcript \o es \in Seq(Entries)
      /\ Len(transcript \o es) = Len(transcript) + Len(es)
      /\ \A k \in 1..Len(transcript) : (transcript \o es)[k] = transcript[k]
      /\ \A k \in 1..Len(es) : (transcript \o es)[Len(transcript) + k] = es[k]
  BY <1>a, <1>3, Extension
<1>6. /\ \A k \in 1..n : calls[rest[k]].result = "none"
      /\ \A i \in 1..Len(calls) : calls[i].result = "none" => \E k \in 1..n : rest[k] = i
  <2>1. Unanswered = {rest[k] : k \in 1..n}
    BY <1>2, <1>b DEF InSourceOrder
  <2> QED
    BY <1>a, <2>1 DEF Unanswered
<1>7. \A k, l \in 1..n : rest[k] = rest[l] => k = l
  <2>1. \A k, l \in 1..n : k < l => rest[k] < rest[l]
    BY <1>2, <1>b DEF InSourceOrder
  <2>2. \A k \in 1..n : rest[k] \in Int
    BY <1>a, <1>b
  <2> QED
    BY <1>b, <2>1, <2>2
<1>8. /\ transcript' \in Seq(Entries) /\ Len(transcript') = Len(transcript) + n
      /\ \A k \in 1..Len(transcript) : transcript'[k] = transcript[k]
      /\ \A k \in 1..n : transcript'[Len(transcript) + k] = Result(rest[k], "skipped")
  BY <1>3, <1>4, <1>5
<1> WITNESS n \in Nat
<1> WITNESS rest \in [1..n -> 1..Len(calls)]
<1> QED
  BY <1>a, <1>6, <1>7, <1>8

-----------------------------------------------------------------------------
(* What a batch records.                                                   *)

USE DEF userVars, runVars, turnVars, toolVars

LEMMA ResultInvKept ==
    ASSUME ResultInv, UNCHANGED <<calls, triggered>>,
           steeringAfter' = steeringAfter \/ pc' # "batch",
           \/ pc' = pc
           \/ pc' \notin {"streaming", "resolve", "batch"}
           \/ pc = "streaming" /\ pc' = "resolve"
    PROVE  ResultInv'
BY DEF ResultInv

LEMMA ResultInvUser == ResultInv /\ User => ResultInv'
<1> SUFFICES ASSUME ResultInv, User PROVE ResultInv'
  OBVIOUS
<1>1. UNCHANGED <<calls, triggered, steeringAfter>>
  BY DEF User, Steer, FollowUp, Prompt, PopLastSteer, PopLastFollowUp,
         ClearAllQueues, Abort, Continue, StartRun
<1>2. pc' = pc \/ pc' = "firstPoll"
  BY DEF User, Steer, FollowUp, Prompt, PopLastSteer, PopLastFollowUp,
         ClearAllQueues, Abort, Continue, StartRun
<1> QED
  BY <1>1, <1>2, ResultInvKept

LEMMA ResultInvModel == TypeOK /\ ResultInv /\ Model => ResultInv'
<1> SUFFICES ASSUME TypeOK, ResultInv, Model PROVE ResultInv'
  OBVIOUS
<1>a. Len(calls) \in Nat /\ DOMAIN calls = 1..Len(calls)
  BY CallsDomain DEF TypeOK
<1>1. ASSUME NEW kind \in {"parallel", "sequential", "unknown"}, ToolCallEnd(kind)
      PROVE  ResultInv'
  <2> DEFINE call == [tool |-> kind,
                      exec |-> IF Dispatched(kind) THEN "running" ELSE "none",
                      step |-> "waiting", eager |-> Dispatched(kind),
                      result |-> "none"]
  <2>1. calls' = Append(calls, call) /\ pc = "streaming" /\ pc' \in {"streaming", "resolve"}
    BY <1>1 DEF ToolCallEnd
  <2>2. call.result = "none"
    OBVIOUS
  <2> HIDE DEF call
  <2>3. /\ DOMAIN calls' = 1..(Len(calls) + 1)
        /\ \A i \in DOMAIN calls : calls'[i] = calls[i]
        /\ calls'[Len(calls) + 1] = call
    BY <1>a, <2>1 DEF TypeOK
  <2>4. \A i \in DOMAIN calls' : i \in DOMAIN calls \/ calls'[i] = call
    BY <1>a, <2>3
  <2>5. \A i \in DOMAIN calls' : calls'[i].result = "none"
    BY <2>1, <2>2, <2>3, <2>4 DEF ResultInv
  <2> QED
    BY <2>1, <2>5 DEF ResultInv
<1>2. CASE StreamDone
  <2>1. UNCHANGED <<calls, triggered, steeringAfter>> /\ pc = "streaming"
        /\ pc' \in {"turnEnd", "resolve"}
    BY <1>2 DEF StreamDone
  <2> QED
    BY <2>1, ResultInvKept
<1>3. CASE StreamFails
  BY <1>3 DEF StreamFails, ResultInv
<1> QED
  BY <1>1, <1>2, <1>3 DEF Model

LEMMA ResultInvTools == TypeOK /\ ResultInv /\ Tools => ResultInv'
<1> SUFFICES ASSUME TypeOK, ResultInv, Tools PROVE ResultInv'
  OBVIOUS
<1>1. ASSUME NEW i \in 1..MaxCalls, ToolFinishes(i) PROVE ResultInv'
  <2>1. PICK out \in {"ok", "halt"} : calls' = [calls EXCEPT ![i].exec = out]
    BY <1>1 DEF ToolFinishes
  <2>2. \A k \in DOMAIN calls : calls[k] \in Call
    BY CallsDomain DEF TypeOK
  <2>3. /\ DOMAIN calls' = DOMAIN calls
        /\ \A k \in DOMAIN calls : /\ calls'[k].step = calls[k].step
                                   /\ calls'[k].result = calls[k].result
    BY <2>1, <2>2 DEF Call
  <2>4. UNCHANGED <<pc, triggered, steeringAfter>>
    BY <1>1 DEF ToolFinishes
  <2> QED
    BY <2>3, <2>4 DEF ResultInv
<1>2. ASSUME NEW o \in orphans, OrphanFinishes(o) PROVE ResultInv'
  BY <1>2, ResultInvKept DEF OrphanFinishes
<1> QED
  BY <1>1, <1>2 DEF Tools

LEMMA ResultInvLoop ==
    TypeOK /\ BatchInv /\ InterruptInv /\ ResultInv /\ Loop => ResultInv'
<1> SUFFICES ASSUME TypeOK, BatchInv, InterruptInv, ResultInv, Loop PROVE ResultInv'
  OBVIOUS
<1>a. /\ Len(calls) \in Nat
      /\ DOMAIN calls = 1..Len(calls)
      /\ \A i \in DOMAIN calls : calls[i] \in Call
  BY CallsDomain DEF TypeOK
<1>1. CASE FirstPoll \/ StartTurn \/ FollowUpPoll \/ RequestFails \/ ResolveThrows \/ TurnEnd
  <2>1. /\ UNCHANGED <<calls, triggered>>
        /\ pc' \notin {"streaming", "resolve", "batch"}
    BY <1>1 DEF FirstPoll, StartTurn, FollowUpPoll, RequestFails, ResolveThrows, TurnEnd
  <2> QED
    BY <2>1, ResultInvKept
<1>2. CASE OpenStream
  <2>1. DOMAIN calls' = {} /\ pc' = "streaming"
    BY <1>2 DEF OpenStream
  <2> QED
    BY <2>1 DEF ResultInv
<1>3. ASSUME NEW found \in [1..MaxCalls -> {"parallel", "sequential", "missing"}],
             ResolveTools(found)
      PROVE  ResultInv'
  <2> DEFINE known == [i \in DOMAIN calls |->
                         IF calls[i].tool = "unknown"
                         THEN [calls[i] EXCEPT !.tool = found[i]] ELSE calls[i]]
  <2>1. /\ DOMAIN known = DOMAIN calls
        /\ \A i \in DOMAIN calls : /\ known[i].step = calls[i].step
                                   /\ known[i].result = calls[i].result
    BY <1>a DEF Call
  <2>2. \A i \in DOMAIN calls : i \in 1..MaxCalls
    BY <1>a, ConfigAssumption DEF TypeOK
  <2>3. \A i \in DOMAIN known : known[i] \in Call
    BY <1>a, <2>2 DEF Call
  <2>4. /\ pc = "resolve" /\ pc' = "batch" /\ UNCHANGED <<triggered, steeringAfter>>
        /\ calls' = known \/ calls' = [i \in DOMAIN known |-> Started(known[i])]
    BY <1>3 DEF ResolveTools
  <2>5. \A i \in DOMAIN calls : calls[i].step = "waiting" /\ calls[i].result = "none"
    BY <2>4 DEF BatchInv, ResultInv
  <2> HIDE DEF known
  <2>6. /\ DOMAIN calls' = DOMAIN calls
        /\ \A i \in DOMAIN calls : /\ calls'[i].step \in {"waiting", "running"}
                                   /\ calls'[i].result = "none"
    <3>1. \A c \in Call : Started(c).step = "running" /\ Started(c).result = c.result
      BY DEF Started, Call
    <3>2. CASE calls' = known
      BY <2>1, <2>5, <3>2
    <3>3. CASE calls' = [i \in DOMAIN known |-> Started(known[i])]
      <4>1. DOMAIN calls' = DOMAIN known
        BY <3>3
      <4>2. \A i \in DOMAIN known : calls'[i] = Started(known[i])
        BY <3>3
      <4> QED
        BY <2>1, <2>3, <2>5, <3>1, <4>1, <4>2
    <3> QED
      BY <2>4, <3>2, <3>3
  <2> QED
    BY <2>4, <2>6 DEF ResultInv, InterruptInv
<1>4. ASSUME NEW i \in 1..MaxCalls, StartNext(i) PROVE ResultInv'
  <2>1. /\ i \in DOMAIN calls /\ calls' = [calls EXCEPT ![i] = Started(calls[i])]
        /\ pc = "batch" /\ pc' = "batch" /\ calls[i].step = "waiting"
        /\ UNCHANGED <<triggered, steeringAfter>>
    BY <1>4 DEF StartNext, MayStart, InTurn
  <2>2. /\ DOMAIN calls' = DOMAIN calls
        /\ \A k \in DOMAIN calls :
              /\ calls'[k].result = calls[k].result
              /\ k # i => calls'[k].step = calls[k].step
        /\ calls'[i].step = "running"
    BY <1>a, <2>1 DEF Started, Call
  <2> QED
    BY <2>1, <2>2 DEF ResultInv
<1>5. ASSUME NEW i \in 1..MaxCalls, EmitResult(i) PROVE ResultInv'
  <2> DEFINE step == IF ChecksSteering THEN "checking" ELSE "returned"
  <2>1. /\ i \in DOMAIN calls /\ pc = "batch" /\ pc' = "batch"
        /\ calls' = [calls EXCEPT ![i].result = Emitted(calls[i]), ![i].step = step]
        /\ UNCHANGED <<triggered, steeringAfter>>
    BY <1>5 DEF EmitResult
  <2>2. /\ DOMAIN calls' = DOMAIN calls
        /\ \A k \in DOMAIN calls :
              k # i => calls'[k].step = calls[k].step /\ calls'[k].result = calls[k].result
        /\ calls'[i].step \in {"checking", "returned"}
        /\ calls'[i].result = Emitted(calls[i])
    BY <1>a, <2>1 DEF Call
  <2>3. Emitted(calls[i]) # "none" /\ (Emitted(calls[i]) = "skipped" => triggered)
    BY DEF Emitted
  <2> QED
    BY <2>1, <2>2, <2>3 DEF ResultInv
<1>6. CASE CheckReturns
  <2>1. /\ DOMAIN calls' = DOMAIN calls /\ pc = "batch" /\ pc' = "batch" /\ ~triggered
        /\ \A k \in DOMAIN calls :
              /\ calls'[k].result = calls[k].result
              /\ calls'[k].step = IF calls[k].step = "checking" THEN "returned"
                                  ELSE calls[k].step
        /\ triggered' = (polled # <<>>) /\ steeringAfter' = polled
    BY <1>a, <1>6 DEF CheckReturns, InterruptInv, Call
  <2> QED
    BY <2>1 DEF ResultInv
<1>7. CASE SettleBatch
  <2>1. pc' \in {"idle", "turnEnd"}
    BY <1>7 DEF SettleBatch
  <2> QED
    BY <2>1 DEF ResultInv
<1> QED
  BY <1>1, <1>2, <1>3, <1>4, <1>5, <1>6, <1>7 DEF Loop

LEMMA ResultInvHolds == Spec => [](TypeOK /\ BatchInv /\ InterruptInv /\ ResultInv)
<1>1. Init => ResultInv
  BY DEF Init, ResultInv
<1>2. TypeOK /\ BatchInv /\ InterruptInv /\ ResultInv /\ [Next]_vars => ResultInv'
  <2> SUFFICES ASSUME TypeOK, BatchInv, InterruptInv, ResultInv, [Next]_vars
               PROVE  ResultInv'
    OBVIOUS
  <2>1. CASE UNCHANGED vars
    BY <2>1, ResultInvKept DEF vars
  <2> QED
    BY <2>1, ResultInvUser, ResultInvModel, ResultInvTools, ResultInvLoop DEF Next
<1> QED
  BY <1>1, <1>2, TypeCorrect, BatchInvHolds, InterruptInvHolds, PTL DEF Spec

-----------------------------------------------------------------------------
(* A halting result is the end of its run.                                 *)

(* What run r adds: results, and messages only while it has not halted.    *)
LEMMA HaltGrows ==
    ASSUME NEW t \in Seq(Entries), NEW u \in Seq(Entries), NEW r \in Nat,
           Len(t) <= Len(u), \A k \in 1..Len(t) : u[k] = t[k],
           RunsUpTo(t, r), HaltsLast(t),
           \A k \in (Len(t) + 1)..Len(u) : u[k].role # "user" => u[k].run = r,
           \A a \in (Len(t) + 1)..Len(u) : u[a].role = "assistant" =>
              /\ HaltFree(t, r)
              /\ \A k \in (Len(t) + 1)..Len(u) : ~HaltsIn(u, k, r)
    PROVE  /\ RunsUpTo(u, r)
           /\ HaltsLast(u)
           /\ HaltFree(t, r) /\ (\A k \in (Len(t) + 1)..Len(u) : ~HaltsIn(u, k, r))
                 => HaltFree(u, r)
<1>a. /\ Len(t) \in Nat /\ Len(u) \in Nat
      /\ \A k \in 1..Len(u) : k \in 1..Len(t) \/ k \in (Len(t) + 1)..Len(u)
  BY EntryFields
<1>b. \A q : \A k \in 1..Len(t) : HaltsIn(u, k, q) <=> HaltsIn(t, k, q)
  BY DEF HaltsIn
<1>1. RunsUpTo(u, r)
  BY <1>a DEF RunsUpTo
<1>2. HaltsLast(u)
  <2> SUFFICES ASSUME NEW k \in 1..Len(u), NEW a \in 1..Len(u), k < a,
                      u[a].role = "assistant", HaltsIn(u, k, u[a].run)
               PROVE  FALSE
    BY DEF HaltsLast
  <2>1. CASE a \in 1..Len(t)
    <3>1. k \in 1..Len(t) /\ u[a] = t[a]
      BY <1>a, <2>1
    <3> QED
      BY <1>b, <2>1, <3>1 DEF HaltsLast
  <2>2. CASE a \in (Len(t) + 1)..Len(u)
    <3>1. u[a].run = r /\ HaltFree(t, r)
      BY <2>2
    <3>2. k \notin (Len(t) + 1)..Len(u)
      BY <2>2, <3>1
    <3> QED
      BY <1>a, <1>b, <3>1, <3>2 DEF HaltFree
  <2> QED
    BY <1>a, <2>1, <2>2
<1>3. ASSUME HaltFree(t, r), \A k \in (Len(t) + 1)..Len(u) : ~HaltsIn(u, k, r)
      PROVE  HaltFree(u, r)
  BY <1>a, <1>b, <1>3 DEF HaltFree
<1> QED
  BY <1>1, <1>2, <1>3

(* A new run has recorded nothing.                                         *)
LEMMA HaltStarts ==
    ASSUME TypeOK, HaltInv, NEW ms \in Seq(Msgs), NEW skip, StartRun(ms, skip)
    PROVE  HaltInv'
<1>a. /\ transcript \in Seq(Entries) /\ runs \in Nat /\ runs + 1 \in Nat
      /\ runs' = runs + 1 /\ transcript' = transcript \o UserMsgs(ms)
  BY DEF TypeOK, StartRun
<1>1. /\ transcript' \in Seq(Entries)
      /\ Len(transcript) \in Nat
      /\ Len(transcript) <= Len(transcript')
      /\ \A k \in 1..Len(transcript) : transcript'[k] = transcript[k]
      /\ \A k \in (Len(transcript) + 1)..Len(transcript') : transcript'[k].role = "user"
  BY <1>a, SaysUsers
<1>2. RunsUpTo(transcript, runs + 1) /\ HaltFree(transcript, runs + 1)
  <2>1. \A k \in 1..Len(transcript) : transcript[k].role # "user" =>
           transcript[k].run \in Nat /\ transcript[k].run <= runs
    BY <1>a, EntryFields DEF HaltInv, RunsUpTo
  <2>2. \A k \in 1..Len(transcript) : transcript[k].role # "user" =>
           transcript[k].run <= runs + 1 /\ transcript[k].run # runs + 1
    BY <1>a, <2>1
  <2> QED
    BY <2>2 DEF RunsUpTo, HaltFree, HaltsIn
<1>3. \A k \in (Len(transcript) + 1)..Len(transcript') : ~HaltsIn(transcript', k, runs + 1)
  BY <1>1 DEF HaltsIn
<1>4. /\ RunsUpTo(transcript', runs + 1)
      /\ HaltsLast(transcript')
      /\ HaltFree(transcript', runs + 1)
  BY <1>a, <1>1, <1>2, <1>3, HaltGrows DEF HaltInv
<1> QED
  BY <1>a, <1>4 DEF HaltInv

LEMMA HaltKept ==
    ASSUME HaltInv, UNCHANGED <<transcript, runs>>, Ending => Ending'
    PROVE  HaltInv'
BY DEF HaltInv

LEMMA HaltUser == TypeOK /\ HaltInv /\ User => HaltInv'
<1> SUFFICES ASSUME TypeOK, HaltInv, User PROVE HaltInv'
  OBVIOUS
<1>1. CASE UNCHANGED <<transcript, runs, pc, calls>>
  BY <1>1, HaltKept DEF Ending, Halted
<1>2. ASSUME NEW m \in Msgs, Prompt(m) PROVE HaltInv'
  <2>1. StartRun(<<m>>, FALSE)
    BY <1>2 DEF Prompt
  <2>2. <<m>> \in Seq(Msgs)
    OBVIOUS
  <2> QED
    BY <2>1, <2>2, HaltStarts
<1>3. CASE Continue
  <2>1. /\ <<>> \in Seq(Msgs)
        /\ Taken(SteeringMode, steering) \in Seq(Msgs)
        /\ Taken(FollowUpMode, followUp) \in Seq(Msgs)
    BY PollType DEF TypeOK
  <2>2. \/ StartRun(<<>>, FALSE)
        \/ StartRun(Taken(SteeringMode, steering), TRUE)
        \/ StartRun(Taken(FollowUpMode, followUp), FALSE)
    BY <1>3 DEF Continue
  <2> QED
    BY <2>1, <2>2, HaltStarts
<1> QED
  BY <1>1, <1>2, <1>3 DEF User, Steer, FollowUp, PopLastSteer, PopLastFollowUp,
     ClearAllQueues, Abort

LEMMA HaltModel == TypeOK /\ HaltInv /\ Model => HaltInv'
<1> SUFFICES ASSUME TypeOK, HaltInv, Model PROVE HaltInv'
  OBVIOUS
<1>a. /\ transcript \in Seq(Entries) /\ runs \in Nat /\ Len(transcript) \in Nat
      /\ Len(calls) \in Nat /\ runs' = runs /\ pc = "streaming"
  BY CallsDomain, LenProperties
     DEF TypeOK, Model, ToolCallEnd, StreamDone, StreamFails
<1>b. HaltFree(transcript, runs)
  BY <1>a DEF HaltInv, Ending
<1>1. CASE transcript' = transcript
  BY <1>1, <1>a, HaltKept DEF Ending
<1>2. ASSUME NEW n \in Nat, NEW st \in {"stop", "toolUse"}, CloseMessage(n, st)
      PROVE  HaltInv'
  <2>1. Assistant(n, st) \in Entries
    BY AssistantType
  <2>2. transcript' = Append(transcript, Assistant(n, st))
    BY <1>2 DEF CloseMessage
  <2>3. /\ transcript' \in Seq(Entries)
        /\ Len(transcript') = Len(transcript) + 1
        /\ \A k \in 1..Len(transcript) : transcript'[k] = transcript[k]
        /\ transcript'[Len(transcript) + 1] = Assistant(n, st)
    BY <1>a, <2>1, <2>2, ExtensionByOne
  <2>4. \A k \in (Len(transcript) + 1)..Len(transcript') :
           /\ transcript'[k].run = runs
           /\ ~HaltsIn(transcript', k, runs)
    BY <1>a, <2>3 DEF Assistant, HaltsIn
  <2>5. /\ RunsUpTo(transcript', runs) /\ HaltsLast(transcript')
        /\ HaltFree(transcript', runs)
    BY <1>a, <1>b, <2>3, <2>4, HaltGrows DEF HaltInv
  <2> QED
    BY <1>a, <2>5 DEF HaltInv
<1>3. CASE StreamFails
  <2>1. /\ transcript' \in Seq(Entries)
        /\ Len(transcript') = Len(transcript) + 1 + Len(calls)
        /\ \A k \in 1..Len(transcript) : transcript'[k] = transcript[k]
        /\ transcript'[Len(transcript) + 1] = Assistant(Len(calls), StopReason)
        /\ \A i \in 1..Len(calls) :
              transcript'[Len(transcript) + 1 + i] = Result(i, "aborted")
    BY <1>3, FailedMessage
  <2>2. \A k \in (Len(transcript) + 1)..Len(transcript') :
           /\ transcript'[k].run = runs
           /\ ~HaltsIn(transcript', k, runs)
    <3> TAKE k \in (Len(transcript) + 1)..Len(transcript')
    <3>1. CASE k = Len(transcript) + 1
      BY <2>1, <3>1 DEF Assistant, HaltsIn
    <3>2. CASE k # Len(transcript) + 1
      <4>1. /\ k - (Len(transcript) + 1) \in 1..Len(calls)
            /\ k = Len(transcript) + 1 + (k - (Len(transcript) + 1))
        BY <1>a, <2>1, <3>2
      <4>2. transcript'[k] = Result(k - (Len(transcript) + 1), "aborted")
        BY <2>1, <4>1
      <4> QED
        BY <4>2 DEF Result, HaltsIn
    <3> QED
      BY <3>1, <3>2
  <2>3. Len(transcript) <= Len(transcript')
    BY <1>a, <2>1
  <2>4. RunsUpTo(transcript', runs) /\ HaltsLast(transcript')
    BY <1>a, <1>b, <2>1, <2>2, <2>3, HaltGrows DEF HaltInv
  <2> QED
    BY <1>3, <1>a, <2>4 DEF HaltInv, StreamFails, Ending
<1>4. ASSUME NEW kind \in {"parallel", "sequential", "unknown"}, ToolCallEnd(kind)
      PROVE  HaltInv'
  BY <1>1, <1>2, <1>4, <1>a DEF ToolCallEnd
<1>5. CASE StreamDone
  BY <1>2, <1>5, <1>a DEF StreamDone
<1> QED
  BY <1>3, <1>4, <1>5 DEF Model

LEMMA HaltTools == TypeOK /\ HaltInv /\ Tools => HaltInv'
<1> SUFFICES ASSUME TypeOK, HaltInv, Tools PROVE HaltInv'
  OBVIOUS
<1>1. UNCHANGED <<transcript, runs, pc>>
  BY DEF Tools, ToolFinishes, OrphanFinishes
<1>2. /\ DOMAIN calls' = DOMAIN calls
      /\ \A k \in DOMAIN calls : calls'[k].result = calls[k].result
  <2>1. ASSUME NEW i \in 1..MaxCalls, ToolFinishes(i)
        PROVE  /\ DOMAIN calls' = DOMAIN calls
               /\ \A k \in DOMAIN calls : calls'[k].result = calls[k].result
    BY <2>1, CallsDomain DEF ToolFinishes, TypeOK, Call
  <2>2. (\E o \in orphans : OrphanFinishes(o)) => calls' = calls
    BY DEF OrphanFinishes
  <2> QED
    BY <2>1, <2>2 DEF Tools
<1> QED
  BY <1>1, <1>2, HaltKept DEF Ending, Halted

LEMMA HaltLoop == TypeOK /\ ResultInv /\ HaltInv /\ Loop => HaltInv'
<1> SUFFICES ASSUME TypeOK, ResultInv, HaltInv, Loop PROVE HaltInv'
  OBVIOUS
<1>a. /\ transcript \in Seq(Entries) /\ runs \in Nat /\ Len(transcript) \in Nat
      /\ Len(calls) \in Nat /\ DOMAIN calls = 1..Len(calls)
      /\ \A i \in DOMAIN calls : calls[i] \in Call
  BY CallsDomain, LenProperties DEF TypeOK
<1>1. CASE FirstPoll \/ FollowUpPoll \/ OpenStream \/ RequestFails \/ ResolveThrows \/ TurnEnd
  <2>1. /\ UNCHANGED <<transcript, runs>>
        /\ pc \notin {"idle", "batch"}
    BY <1>1 DEF FirstPoll, FollowUpPoll, OpenStream, RequestFails, ResolveThrows, TurnEnd
  <2> QED
    BY <2>1, HaltKept DEF Ending
<1>2. ASSUME NEW found, ResolveTools(found) PROVE HaltInv'
  BY <1>2, HaltKept DEF ResolveTools, Ending
<1>3. CASE StartTurn
  <2>1. /\ transcript' = transcript \o UserMsgs(pending) /\ pending \in Seq(Msgs)
        /\ pc = "inner" /\ pc' = "request" /\ runs' = runs
    BY <1>3 DEF StartTurn, TypeOK
  <2>2. /\ transcript' \in Seq(Entries) /\ Len(transcript) <= Len(transcript')
        /\ \A k \in 1..Len(transcript) : transcript'[k] = transcript[k]
        /\ \A k \in (Len(transcript) + 1)..Len(transcript') : transcript'[k].role = "user"
    BY <1>a, <2>1, SaysUsers
  <2>3. HaltFree(transcript, runs)
    BY <2>1 DEF HaltInv, Ending
  <2>4. \A k \in (Len(transcript) + 1)..Len(transcript') : ~HaltsIn(transcript', k, runs)
    BY <2>2 DEF HaltsIn
  <2>5. /\ RunsUpTo(transcript', runs) /\ HaltsLast(transcript')
        /\ HaltFree(transcript', runs)
    BY <1>a, <2>2, <2>3, <2>4, HaltGrows DEF HaltInv
  <2> QED
    BY <2>1, <2>5 DEF HaltInv
<1>4. ASSUME NEW i \in 1..MaxCalls, StartNext(i) PROVE HaltInv'
  <2>1. /\ i \in DOMAIN calls /\ calls' = [calls EXCEPT ![i] = Started(calls[i])]
        /\ UNCHANGED <<transcript, runs, pc>>
    BY <1>4 DEF StartNext
  <2>2. /\ DOMAIN calls' = DOMAIN calls
        /\ \A k \in DOMAIN calls : calls'[k].result = calls[k].result
    BY <1>a, <2>1 DEF Started, Call
  <2> QED
    BY <2>1, <2>2, HaltKept DEF Ending, Halted
<1>5. ASSUME NEW i \in 1..MaxCalls, EmitResult(i) PROVE HaltInv'
  <2> DEFINE out == Emitted(calls[i])
  <2>1. /\ i \in DOMAIN calls /\ pc = "batch" /\ UNCHANGED <<pc, runs>>
        /\ calls[i].step = "running"
        /\ transcript' = Append(transcript, Result(i, out))
        /\ calls' = [calls EXCEPT ![i].result = out,
                                  ![i].step = IF ChecksSteering THEN "checking"
                                              ELSE "returned"]
    BY <1>5 DEF EmitResult
  <2>2. Result(i, out) \in Entries
    BY <1>a, <2>1, EmittedType, ResultType DEF Outcomes
  <2>3. /\ DOMAIN calls' = DOMAIN calls
        /\ \A k \in DOMAIN calls : k # i => calls'[k].result = calls[k].result
        /\ calls'[i].result = out
        /\ calls[i].result = "none"
    BY <1>a, <2>1 DEF Call, ResultInv
  <2>4. Ending => Ending'
    BY <2>1, <2>3 DEF Ending, Halted
  <2>5. ~Ending' => ~Ending /\ out # "halt"
    BY <2>1, <2>3, <2>4 DEF Ending, Halted
  <2> HIDE DEF out
  <2>6. /\ transcript' \in Seq(Entries)
        /\ Len(transcript') = Len(transcript) + 1
        /\ \A k \in 1..Len(transcript) : transcript'[k] = transcript[k]
        /\ transcript'[Len(transcript) + 1] = Result(i, out)
    BY <1>a, <2>1, <2>2, ExtensionByOne
  <2>7. \A k \in (Len(transcript) + 1)..Len(transcript') :
           /\ transcript'[k].role = "toolResult"
           /\ transcript'[k].run = runs
           /\ out # "halt" => ~HaltsIn(transcript', k, runs)
    BY <1>a, <2>6 DEF Result, HaltsIn
  <2>8. Len(transcript) <= Len(transcript')
    BY <1>a, <2>6
  <2>9. /\ RunsUpTo(transcript', runs) /\ HaltsLast(transcript')
        /\ HaltFree(transcript, runs) /\ out # "halt" => HaltFree(transcript', runs)
    BY <1>a, <2>6, <2>7, <2>8, HaltGrows DEF HaltInv
  <2> QED
    BY <2>1, <2>5, <2>9 DEF HaltInv
<1>6. CASE CheckReturns
  <2>1. /\ DOMAIN calls' = DOMAIN calls
        /\ \A k \in DOMAIN calls : calls'[k].result = calls[k].result
        /\ UNCHANGED <<transcript, runs, pc>>
    BY <1>6, <1>a DEF CheckReturns, Call
  <2> QED
    BY <2>1, HaltKept DEF Ending, Halted
<1>7. CASE SettleBatch
  <2>1. PICK n \in Nat : \E rest \in [1..n -> 1..Len(calls)] :
           /\ transcript' \in Seq(Entries)
           /\ Len(transcript') = Len(transcript) + n
           /\ \A k \in 1..Len(transcript) : transcript'[k] = transcript[k]
           /\ \A k \in 1..n :
                 transcript'[Len(transcript) + k] = Result(rest[k], "skipped")
    BY <1>7, SettledBatch
  <2>2. \A k \in (Len(transcript) + 1)..Len(transcript') :
           /\ transcript'[k].role = "toolResult"
           /\ transcript'[k].run = runs
           /\ ~HaltsIn(transcript', k, runs)
    <3> TAKE k \in (Len(transcript) + 1)..Len(transcript')
    <3>1. k - Len(transcript) \in 1..n /\ k = Len(transcript) + (k - Len(transcript))
      BY <1>a, <2>1
    <3>2. \E j \in 1..Len(calls) : transcript'[k] = Result(j, "skipped")
      BY <2>1, <3>1
    <3> QED
      BY <3>2 DEF Result, HaltsIn
  <2>3. Len(transcript) <= Len(transcript')
    BY <1>a, <2>1
  <2>4. /\ RunsUpTo(transcript', runs) /\ HaltsLast(transcript')
        /\ HaltFree(transcript, runs) => HaltFree(transcript', runs)
    BY <1>a, <2>1, <2>2, <2>3, HaltGrows DEF HaltInv
  <2>5. runs' = runs /\ (~Ending' => ~Ending)
    BY <1>7 DEF SettleBatch, Ending, BatchOver
  <2> QED
    BY <2>4, <2>5 DEF HaltInv
<1> QED
  BY <1>1, <1>2, <1>3, <1>4, <1>5, <1>6, <1>7 DEF Loop

LEMMA HaltInvHolds == Spec => []HaltInv
<1>1. Init => HaltInv
  <2> SUFFICES ASSUME Init PROVE HaltInv
    OBVIOUS
  <2>1. 1..Len(transcript) = {} /\ pc = "idle"
    BY DEF Init
  <2> QED
    BY <2>1 DEF HaltInv, RunsUpTo, HaltsLast, Ending
<1>2. TypeOK /\ ResultInv /\ HaltInv /\ [Next]_vars => HaltInv'
  <2> SUFFICES ASSUME TypeOK, ResultInv, HaltInv, [Next]_vars PROVE HaltInv'
    OBVIOUS
  <2>1. CASE UNCHANGED vars
    BY <2>1, HaltKept DEF vars, Ending, Halted
  <2> QED
    BY <2>1, HaltUser, HaltModel, HaltTools, HaltLoop DEF Next
<1> QED
  BY <1>1, <1>2, ResultInvHolds, PTL DEF Spec

(* Once a halting result is in the transcript, the run that recorded it    *)
(* makes no further model call, also when the result is one of a batch     *)
(* whose other tools still run or were interrupted (agent-loop.ts 325-336).*)
THEOREM HaltEndsTheRun == Spec => []HaltIsFinal
<1>1. TypeOK /\ HaltInv => HaltIsFinal
  <2> SUFFICES ASSUME TypeOK, HaltInv PROVE HaltIsFinal
    OBVIOUS
  <2>1. DOMAIN transcript = 1..Len(transcript)
    BY LenProperties DEF TypeOK
  <2> QED
    BY <2>1 DEF HaltInv, HaltsLast, HaltsIn, HaltIsFinal, IsResult, IsAssistant
<1> QED
  BY <1>1, TypeCorrect, HaltInvHolds, PTL

-----------------------------------------------------------------------------
(* Every call is answered, and a skipped one explained.                    *)

LEMMA ExplainedWeaker ==
    ASSUME NEW t, NEW n, NEW w, NEW v, ExplainedTo(t, n, w), w => v
    PROVE  ExplainedTo(t, n, v)
BY DEF ExplainedTo

LEMMA AwaitedIsBoolean == Awaited \in BOOLEAN
BY DEF Awaited

(* User messages are said between two turns, or open a run.                *)
LEMMA SaysKeeps ==
    ASSUME TypeOK, NEW ms \in Seq(Msgs), transcript' = transcript \o UserMsgs(ms),
           PairedTo(transcript, Len(transcript)),
           NEW w \in BOOLEAN, ExplainedTo(transcript, Len(transcript), w),
           w => ms # <<>>
    PROVE  /\ PairedTo(transcript', Len(transcript'))
           /\ ExplainedTo(transcript', Len(transcript'), FALSE)
<1> DEFINE n == Len(transcript)
           m == Len(transcript')
<1>1. /\ transcript \in Seq(Entries) /\ transcript' \in Seq(Entries)
      /\ n \in Nat /\ Len(ms) \in Nat /\ m = n + Len(ms)
      /\ \A k \in 1..n : transcript'[k] = transcript[k]
      /\ \A k \in (n + 1)..m : transcript'[k].role = "user"
  <2>1. transcript \in Seq(Entries)
    BY DEF TypeOK
  <2> QED
    BY <2>1, SaysUsers
<1>2. n \in 0..n /\ n \in 0..m /\ m \in n..m
  BY <1>1
<1> HIDE DEF n, m
<1>3. PairedTo(transcript', n) /\ ExplainedTo(transcript', n, w)
  <2>1. PairedTo(transcript, n) /\ ExplainedTo(transcript, n, w)
    BY DEF n
  <2>2. \A k \in 1..n : transcript'[k] = transcript[k]
    BY <1>1
  <2>3. n \in 0..Len(transcript)
    BY <1>2 DEF n
  <2>4. PairedTo(transcript', n)
    BY <1>1, <2>1, <2>2, <2>3, PairedPrefix
  <2>5. ExplainedTo(transcript', n, w)
    BY <1>1, <2>1, <2>2, <2>3, ExplainedPrefix
  <2> QED
    BY <2>4, <2>5
<1>4. w => m > n
  <2>1. ms # <<>> => Len(ms) # 0
    BY EmptySeq
  <2> QED
    BY <1>1, <2>1
<1>5. n \in 0..Len(transcript') /\ m \in n..Len(transcript')
  BY <1>2 DEF m
<1>6. PairedTo(transcript', m)
  BY <1>1, <1>3, <1>5, PairedUsers
<1>7. ExplainedTo(transcript', m, FALSE)
  BY <1>1, <1>3, <1>4, <1>5, ExplainedUsers
<1> QED
  BY <1>6, <1>7 DEF m

(* An assistant message with all its results behind it.                    *)
LEMMA AnsweredKeeps ==
    ASSUME NEW t \in Seq(Entries), NEW u \in Seq(Entries), NEW w \in BOOLEAN,
           NEW c \in 1..Len(u), c - 1 <= Len(t), \A k \in 1..(c - 1) : u[k] = t[k],
           PairedTo(t, c - 1), ExplainedTo(t, c - 1, FALSE),
           u[c].role = "assistant", Len(u) = c + u[c].calls,
           \A k \in ResultsOf(u, c) : /\ u[k].role = "toolResult"
                                      /\ u[k].turn = u[c].turn
                                      /\ u[k].call \in 1..u[c].calls,
           \A i \in 1..u[c].calls : \E k \in ResultsOf(u, c) : u[k].call = i,
           Skips(u, c) => w
    PROVE  PairedTo(u, Len(u)) /\ ExplainedTo(u, Len(u), w)
<1>1. /\ Len(t) \in Nat /\ Len(u) \in Nat /\ c - 1 \in 0..Len(t)
      /\ c + u[c].calls <= Len(u)
  BY EntryFields
<1>2. PairedTo(u, c - 1) /\ ExplainedTo(u, c - 1, FALSE)
  BY <1>1, PairedPrefix, ExplainedPrefix
<1>3. PairedTo(u, c + u[c].calls)
  BY <1>1, <1>2, PairedBatch
<1>4. ExplainedTo(u, c + u[c].calls, w)
  BY <1>1, <1>2, ExplainedBatch
<1> QED
  BY <1>3, <1>4

(* A message with calls none of which has a result yet.                    *)
LEMMA Opens ==
    ASSUME TypeOK, TypeOK', NEW st \in {"stop", "toolUse"},
           CloseMessage(Len(calls'), st), turn' = turn,
           \A i \in DOMAIN calls' : calls'[i].result = "none",
           PairedTo(transcript, Len(transcript)),
           ExplainedTo(transcript, Len(transcript), FALSE)
    PROVE  \E c \in Nat : OpenAt(c)'
<1>a. /\ transcript \in Seq(Entries) /\ Len(transcript) \in Nat
      /\ Len(calls') \in Nat /\ DOMAIN calls' = 1..Len(calls')
  BY CallsDomain, LenProperties DEF TypeOK
<1>b. PICK c \in Nat : c = Len(transcript) + 1
  BY <1>a
<1>1. Assistant(Len(calls'), st) \in Entries
  BY <1>a, AssistantType
<1>2. /\ transcript' \in Seq(Entries)
      /\ Len(transcript') = c
      /\ \A k \in 1..(c - 1) : transcript'[k] = transcript[k]
      /\ transcript'[c] = Assistant(Len(calls'), st)
  BY <1>a, <1>b, <1>1, ExtensionByOne DEF CloseMessage
<1>3. c - 1 = Len(transcript) /\ c - 1 \in 0..Len(transcript) /\ c \in 1..c
  BY <1>a, <1>b
<1>4. PairedTo(transcript', c - 1) /\ ExplainedTo(transcript', c - 1, FALSE)
  BY <1>a, <1>2, <1>3, PairedPrefix, ExplainedPrefix
<1>5. /\ transcript'[c].role = "assistant"
      /\ transcript'[c].turn = turn'
      /\ transcript'[c].calls = Len(calls')
  BY <1>2 DEF Assistant
<1>6. (c + 1)..Len(transcript') = {}
  BY <1>2
<1>7. OpenAt(c)'
  BY <1>a, <1>2, <1>3, <1>4, <1>5, <1>6 DEF OpenAt
<1> QED
  BY <1>7

(* As many places as calls, when each place names another call.            *)
LEMMA PlacesAndCalls ==
    ASSUME NEW c \in Nat, NEW m \in Nat, c <= m, NEW n \in Nat,
           NEW f \in [(c + 1)..m -> 1..n],
           \A k, l \in (c + 1)..m : f[k] = f[l] => k = l
    PROVE  /\ m <= c + n
           /\ f \in Surjection((c + 1)..m, 1..n) => m = c + n
<1>1. /\ IsFiniteSet((c + 1)..m) /\ IsFiniteSet(1..n)
      /\ Cardinality((c + 1)..m) = m - c /\ Cardinality(1..n) = n
  <2>1. c + 1 \in Int /\ m \in Int /\ 1 \in Int /\ n \in Int
    OBVIOUS
  <2>2. /\ IsFiniteSet((c + 1)..m)
        /\ Cardinality((c + 1)..m) = IF c + 1 > m THEN 0 ELSE m - (c + 1) + 1
    BY <2>1, FS_Interval
  <2>3. IsFiniteSet(1..n) /\ Cardinality(1..n) = IF 1 > n THEN 0 ELSE n - 1 + 1
    BY <2>1, FS_Interval
  <2> QED
    BY <2>2, <2>3
<1>2. f \in Injection((c + 1)..m, 1..n)
  BY DEF Injection, IsInjective
<1>3. m - c <= n /\ (m - c = n <=> f \in Surjection((c + 1)..m, 1..n))
  <2>1. /\ Cardinality((c + 1)..m) <= Cardinality(1..n)
        /\ Cardinality((c + 1)..m) = Cardinality(1..n)
              <=> f \in Surjection((c + 1)..m, 1..n)
    BY <1>1, <1>2, FS_Injection
  <2> QED
    BY <1>1, <2>1
<1> QED
  BY <1>3

LEMMA OpenBound ==
    ASSUME TypeOK, NEW c \in Nat, OpenAt(c)
    PROVE  Len(transcript) <= c + Len(calls)
<1> DEFINE f == [k \in (c + 1)..Len(transcript) |-> transcript[k].call]
<1>1. /\ Len(transcript) \in Nat /\ c <= Len(transcript) /\ Len(calls) \in Nat
  BY CallsDomain, LenProperties DEF TypeOK, OpenAt
<1>2. /\ f \in [(c + 1)..Len(transcript) -> 1..Len(calls)]
      /\ \A k, l \in (c + 1)..Len(transcript) : f[k] = f[l] => k = l
  BY DEF OpenAt
<1> HIDE DEF f
<1> QED
  BY <1>1, <1>2, PlacesAndCalls

LEMMA OpenKept ==
    ASSUME TypeOK, NEW c \in Nat, OpenAt(c), UNCHANGED <<transcript, turn>>,
           Len(calls') = Len(calls),
           \A i \in 1..Len(calls) : calls'[i].result = calls[i].result
    PROVE  OpenAt(c)'
BY DEF OpenAt

(* A result is recorded for a call that had none.                          *)
LEMMA OpenGrows ==
    ASSUME TypeOK, ResultInv, NEW c \in Nat, OpenAt(c), NEW i \in 1..MaxCalls,
           EmitResult(i)
    PROVE  OpenAt(c)'
<1> DEFINE out == Emitted(calls[i])
           n   == Len(transcript)
<1>a. /\ transcript \in Seq(Entries) /\ n \in Nat /\ Len(calls) \in Nat
      /\ DOMAIN calls = 1..Len(calls)
      /\ \A j \in DOMAIN calls : calls[j] \in Call
  BY CallsDomain, LenProperties DEF TypeOK
<1>1. /\ i \in DOMAIN calls /\ pc = "batch" /\ turn' = turn
      /\ calls[i].step = "running"
      /\ transcript' = Append(transcript, Result(i, out))
      /\ calls' = [calls EXCEPT ![i].result = out,
                                ![i].step = IF ChecksSteering THEN "checking"
                                            ELSE "returned"]
  BY DEF EmitResult
<1>2. Result(i, out) \in Entries
  BY <1>a, <1>1, EmittedType, ResultType DEF Outcomes
<1>3. /\ Len(calls') = Len(calls)
      /\ \A k \in 1..Len(calls) : k # i => calls'[k].result = calls[k].result
      /\ calls'[i].result = out
      /\ calls[i].result = "none"
  BY <1>a, <1>1 DEF Call, ResultInv
<1> HIDE DEF out
<1>4. /\ Len(transcript') = n + 1
      /\ \A k \in 1..n : transcript'[k] = transcript[k]
      /\ transcript'[n + 1] = Result(i, out)
  BY <1>a, <1>1, <1>2, ExtensionByOne
<1> HIDE DEF n
<1>5. c \in 1..n /\ c - 1 \in 0..Len(transcript) /\ c \in 1..Len(transcript')
  BY <1>a, <1>4 DEF OpenAt, n
<1>6. PairedTo(transcript', c - 1) /\ ExplainedTo(transcript', c - 1, FALSE)
  <2>1. \A k \in 1..(c - 1) : transcript'[k] = transcript[k]
    BY <1>a, <1>4, <1>5
  <2>2. PairedTo(transcript, c - 1) /\ ExplainedTo(transcript, c - 1, FALSE)
    BY DEF OpenAt
  <2> QED
    BY <1>a, <1>5, <2>1, <2>2, PairedPrefix, ExplainedPrefix
<1>7. /\ transcript'[c].role = "assistant"
      /\ transcript'[c].turn = turn'
      /\ transcript'[c].calls = Len(calls')
  BY <1>1, <1>3, <1>4, <1>5 DEF OpenAt
<1>8. \A k \in (c + 1)..(n + 1) : k \in (c + 1)..n \/ k = n + 1
  BY <1>a
<1>9. \A k \in (c + 1)..n : /\ k \in (c + 1)..(n + 1)
                            /\ transcript'[k] = transcript[k]
                            /\ transcript[k].role = "toolResult"
                            /\ transcript[k].turn = turn
                            /\ transcript[k].call \in 1..Len(calls)
                            /\ transcript[k].call # i
                            /\ transcript[k].outcome = calls[transcript[k].call].result
  <2> TAKE k \in (c + 1)..n
  <2>1. k \in 1..n /\ k \in (c + 1)..(n + 1)
    BY <1>a, <1>5
  <2>2. transcript[k].role = "toolResult" => transcript[k].outcome # "none"
    BY <1>a, <2>1, EntryFields DEF n, Outcomes
  <2> QED
    BY <1>3, <1>4, <2>1, <2>2 DEF OpenAt, n
<1>10. /\ transcript'[n + 1].role = "toolResult" /\ transcript'[n + 1].turn = turn
       /\ transcript'[n + 1].call = i /\ transcript'[n + 1].outcome = out
       /\ n + 1 \in (c + 1)..(n + 1)
  BY <1>a, <1>4, <1>5 DEF Result
<1>11. \A k \in (c + 1)..(n + 1) :
          /\ transcript'[k].role = "toolResult"
          /\ transcript'[k].turn = turn'
          /\ transcript'[k].call \in 1..Len(calls')
          /\ transcript'[k].outcome = calls'[transcript'[k].call].result
  <2> TAKE k \in (c + 1)..(n + 1)
  <2>1. CASE k \in (c + 1)..n
    <3>1. /\ transcript'[k].call = transcript[k].call
          /\ transcript'[k].call \in 1..Len(calls) /\ transcript'[k].call # i
      BY <1>9, <2>1
    <3>2. calls'[transcript'[k].call].result = calls[transcript'[k].call].result
      BY <1>3, <3>1
    <3> QED
      BY <1>1, <1>3, <1>9, <2>1, <3>1, <3>2
  <2>2. CASE k = n + 1
    BY <1>a, <1>1, <1>3, <1>10, <2>2
  <2> QED
    BY <1>8, <2>1, <2>2
<1>12. \A k, l \in (c + 1)..(n + 1) :
          transcript'[k].call = transcript'[l].call => k = l
  <2>1. \A k, l \in (c + 1)..n : transcript[k].call = transcript[l].call => k = l
    BY DEF OpenAt, n
  <2> QED
    BY <1>8, <1>9, <1>10, <2>1
<1>13. \A j \in 1..Len(calls') : calls'[j].result # "none" =>
          \E k \in (c + 1)..(n + 1) : transcript'[k].call = j
  <2> TAKE j \in 1..Len(calls')
  <2>1. CASE j = i
    BY <1>10, <2>1
  <2>2. CASE j # i
    <3>1. calls'[j].result # "none" => \E k \in (c + 1)..n : transcript[k].call = j
      BY <1>3, <2>2 DEF OpenAt, n
    <3> QED
      BY <1>9, <3>1
  <2> QED
    BY <2>1, <2>2
<1> QED
  BY <1>4, <1>5, <1>6, <1>7, <1>11, <1>12, <1>13 DEF OpenAt

(* The batch is settled: the message is answered.                          *)
LEMMA Closes ==
    ASSUME TypeOK, ResultInv, NEW c \in Nat, OpenAt(c), SettleBatch
    PROVE  /\ PairedTo(transcript', Len(transcript'))
           /\ ExplainedTo(transcript', Len(transcript'), Awaited')
<1> DEFINE n == Len(transcript)
           u == transcript'
           L == Len(calls)
<1>a. /\ transcript \in Seq(Entries) /\ n \in Nat /\ L \in Nat
      /\ DOMAIN calls = 1..L
  BY CallsDomain, LenProperties DEF TypeOK
<1>1. PICK m \in Nat : \E rest \in [1..m -> 1..L] :
         /\ u \in Seq(Entries) /\ Len(u) = n + m
         /\ \A k \in 1..n : u[k] = transcript[k]
         /\ \A k \in 1..m : u[n + k] = Result(rest[k], "skipped")
         /\ \A k \in 1..m : calls[rest[k]].result = "none"
         /\ \A k, l \in 1..m : rest[k] = rest[l] => k = l
         /\ \A i \in 1..L : calls[i].result = "none" => \E k \in 1..m : rest[k] = i
  BY SettledBatch
<1>2. PICK rest \in [1..m -> 1..L] :
         /\ \A k \in 1..m : u[n + k] = Result(rest[k], "skipped")
         /\ \A k \in 1..m : calls[rest[k]].result = "none"
         /\ \A k, l \in 1..m : rest[k] = rest[l] => k = l
         /\ \A i \in 1..L : calls[i].result = "none" => \E k \in 1..m : rest[k] = i
  BY <1>1
<1>3. u \in Seq(Entries) /\ Len(u) = n + m /\ \A k \in 1..n : u[k] = transcript[k]
  BY <1>1
<1> HIDE DEF n, u, L
<1>4. /\ c \in 1..n /\ c - 1 <= Len(transcript) /\ c \in 1..Len(u)
      /\ u[c].role = "assistant" /\ u[c].turn = turn /\ u[c].calls = L
  BY <1>a, <1>3 DEF OpenAt, n, L
<1>5. \A k \in (c + 1)..(n + m) : k \in (c + 1)..n \/ (k - n \in 1..m /\ k = n + (k - n))
  BY <1>a
<1>6. \A k \in (c + 1)..n :
         /\ u[k] = transcript[k]
         /\ u[k].role = "toolResult" /\ u[k].turn = turn
         /\ u[k].call \in 1..L
         /\ u[k].outcome = calls[u[k].call].result
         /\ calls[u[k].call].result # "none"
  <2> TAKE k \in (c + 1)..n
  <2>1. k \in 1..n
    BY <1>a, <1>4
  <2>2. transcript[k].role = "toolResult" => transcript[k].outcome # "none"
    BY <1>a, <2>1, EntryFields DEF n, Outcomes
  <2> QED
    BY <1>3, <2>1, <2>2 DEF OpenAt, n, L
<1>7. \A k \in 1..m :
         /\ n + k \in (c + 1)..(n + m)
         /\ u[n + k].role = "toolResult" /\ u[n + k].turn = turn
         /\ u[n + k].call = rest[k] /\ rest[k] \in 1..L
         /\ u[n + k].outcome = "skipped"
  <2> TAKE k \in 1..m
  <2>1. n + k \in (c + 1)..(n + m)
    BY <1>a, <1>4
  <2>2. u[n + k] = Result(rest[k], "skipped") /\ rest[k] \in 1..L
    BY <1>2
  <2> QED
    BY <2>1, <2>2 DEF Result
<1>8. \A k \in (c + 1)..(n + m) : /\ u[k].role = "toolResult"
                                  /\ u[k].turn = turn
                                  /\ u[k].call \in 1..L
  <2> TAKE k \in (c + 1)..(n + m)
  <2>1. CASE k \in (c + 1)..n
    BY <1>6, <2>1
  <2>2. CASE k - n \in 1..m /\ k = n + (k - n)
    BY <1>7, <2>2
  <2> QED
    BY <1>5, <2>1, <2>2
<1>9. \A k, l \in (c + 1)..(n + m) : u[k].call = u[l].call => k = l
  <2>1. \A k, l \in (c + 1)..n : transcript[k].call = transcript[l].call => k = l
    BY DEF OpenAt, n
  <2>2. \A k \in (c + 1)..n, l \in 1..m : u[k].call # u[n + l].call
    BY <1>2, <1>6, <1>7
  <2>3. \A k, l \in 1..m : u[n + k].call = u[n + l].call => n + k = n + l
    BY <1>2, <1>7
  <2> TAKE k, l \in (c + 1)..(n + m)
  <2>4. CASE k \in (c + 1)..n /\ l \in (c + 1)..n
    BY <1>6, <2>1, <2>4
  <2>5. CASE k \in (c + 1)..n /\ l \notin (c + 1)..n
    BY <1>5, <2>2, <2>5
  <2>6. CASE k \notin (c + 1)..n /\ l \in (c + 1)..n
    BY <1>5, <2>2, <2>6
  <2>7. CASE k \notin (c + 1)..n /\ l \notin (c + 1)..n
    BY <1>5, <2>3, <2>7
  <2> QED
    BY <2>4, <2>5, <2>6, <2>7
<1>10. \A i \in 1..L : \E k \in (c + 1)..(n + m) : u[k].call = i
  <2> TAKE i \in 1..L
  <2>1. CASE calls[i].result = "none"
    BY <1>2, <1>7, <2>1
  <2>2. CASE calls[i].result # "none"
    <3>1. \E k \in (c + 1)..n : transcript[k].call = i
      BY <2>2 DEF OpenAt, n, L
    <3>2. (c + 1)..n \subseteq (c + 1)..(n + m)
      BY <1>a
    <3> QED
      BY <1>6, <3>1, <3>2
  <2> QED
    BY <2>1, <2>2
<1>11. n + m = c + L
  <2>1. PICK p \in Nat : p = n + m
    BY <1>a
  <2> DEFINE f == [k \in (c + 1)..p |-> u[k].call]
  <2>2. /\ f \in [(c + 1)..p -> 1..L]
        /\ \A k, l \in (c + 1)..p : f[k] = f[l] => k = l
        /\ \A i \in 1..L : \E k \in (c + 1)..p : f[k] = i
    BY <1>8, <1>9, <1>10, <2>1
  <2>3. c <= p
    BY <1>a, <1>4, <2>1
  <2> HIDE DEF f
  <2>4. f \in Surjection((c + 1)..p, 1..L)
    BY <2>2 DEF Surjection
  <2>5. p = c + L
    BY <1>a, <2>2, <2>3, <2>4, PlacesAndCalls
  <2> QED
    BY <2>1, <2>5
<1>12. ResultsOf(u, c) = (c + 1)..(n + m)
  BY <1>4, <1>11 DEF ResultsOf
<1>13. Skips(u, c) => Awaited'
  <2> SUFFICES ASSUME Skips(u, c) PROVE Awaited'
    OBVIOUS
  <2>1. ~Halted
    <3> SUFFICES ASSUME NEW i \in 1..L, calls[i].result = "halt" PROVE FALSE
      BY <1>a DEF Halted
    <3>1. PICK k \in (c + 1)..n : transcript[k].call = i
      BY DEF OpenAt, n, L
    <3>2. u[k].outcome = "halt" /\ k \in (c + 1)..(n + m)
      BY <1>a, <1>6, <3>1
    <3> QED
      BY <1>12, <3>2 DEF Skips
  <2>2. pc' = "turnEnd" /\ steeringAfter' = steeringAfter /\ pc = "batch"
    BY <2>1 DEF SettleBatch, BatchOver
  <2>3. triggered
    <3>1. PICK k \in (c + 1)..(n + m) : u[k].outcome = "skipped"
      BY <1>12 DEF Skips
    <3>2. CASE k \in (c + 1)..n
      BY <1>a, <1>6, <2>2, <3>1, <3>2 DEF ResultInv
    <3>3. CASE k - n \in 1..m
      <4>1. rest[k - n] \in DOMAIN calls /\ calls[rest[k - n]].result = "none"
        BY <1>a, <1>2, <1>7, <3>3
      <4>2. calls[rest[k - n]].step \in {"waiting", "running"}
        BY <2>2, <4>1 DEF ResultInv
      <4> QED
        BY <4>1, <4>2 DEF SettleBatch, BatchOver
    <3> QED
      BY <1>5, <3>2, <3>3
  <2>4. steeringAfter # <<>>
    BY <2>2, <2>3 DEF ResultInv
  <2> QED
    BY <2>2, <2>4 DEF Awaited
<1>14. ASSUME NEW w \in BOOLEAN, Skips(u, c) => w
       PROVE  PairedTo(u, Len(u)) /\ ExplainedTo(u, Len(u), w)
  <2>1. PairedTo(transcript, c - 1) /\ ExplainedTo(transcript, c - 1, FALSE)
    BY DEF OpenAt
  <2>2. \A k \in 1..(c - 1) : u[k] = transcript[k]
    BY <1>a, <1>3, <1>4
  <2>3. Len(u) = c + u[c].calls
    BY <1>3, <1>4, <1>11
  <2>4. \A k \in ResultsOf(u, c) : /\ u[k].role = "toolResult"
                                   /\ u[k].turn = u[c].turn
                                   /\ u[k].call \in 1..u[c].calls
    BY <1>4, <1>8, <1>12
  <2>5. \A i \in 1..u[c].calls : \E k \in ResultsOf(u, c) : u[k].call = i
    BY <1>4, <1>10, <1>12
  <2> QED
    BY <1>a, <1>3, <1>4, <1>14, <2>1, <2>2, <2>3, <2>4, <2>5, AnsweredKeeps
<1>15. PairedTo(u, Len(u)) /\ ExplainedTo(u, Len(u), TRUE)
  BY <1>14
<1>16. ~Skips(u, c) => ExplainedTo(u, Len(u), FALSE)
  BY <1>14
<1>17. ExplainedTo(u, Len(u), Awaited')
  <2>1. CASE Awaited'
    BY <1>15, <2>1, ExplainedWeaker
  <2>2. CASE ~Awaited'
    BY <1>13, <1>16, <2>2, ExplainedWeaker
  <2> QED
    BY <2>1, <2>2
<1> QED
  BY <1>15, <1>17 DEF u

-----------------------------------------------------------------------------
(* The transcript through the steps of a run.                              *)

InBatch == pc \in {"resolve", "batch"}

(* Nothing is recorded and no batch is opened or closed.                   *)
LEMMA TranscriptKept ==
    ASSUME TypeOK, TranscriptInv, UNCHANGED <<transcript, turn>>,
           InBatch <=> InBatch',
           InBatch => /\ Len(calls') = Len(calls)
                      /\ \A i \in 1..Len(calls) : calls'[i].result = calls[i].result,
           ~InBatch /\ Awaited => Awaited'
    PROVE  TranscriptInv'
<1>1. CASE InBatch
  <2>1. PICK c \in Nat : OpenAt(c)
    BY <1>1 DEF TranscriptInv, InBatch
  <2>2. OpenAt(c)'
    BY <1>1, <2>1, OpenKept
  <2> QED
    BY <1>1, <2>2 DEF TranscriptInv, InBatch
<1>2. CASE ~InBatch
  <2>1. /\ PairedTo(transcript, Len(transcript))
        /\ ExplainedTo(transcript, Len(transcript), Awaited)
    BY <1>2 DEF TranscriptInv, InBatch
  <2>2. ExplainedTo(transcript, Len(transcript), Awaited')
    BY <1>2, <2>1, ExplainedWeaker
  <2> QED
    BY <1>2, <2>1, <2>2 DEF TranscriptInv, InBatch
<1> QED
  BY <1>1, <1>2

(* No user message is awaited.                                             *)
LEMMA Settled ==
    ASSUME TranscriptInv, ~InBatch, ~Awaited
    PROVE  /\ PairedTo(transcript, Len(transcript))
           /\ ExplainedTo(transcript, Len(transcript), FALSE)
<1>1. /\ PairedTo(transcript, Len(transcript))
      /\ ExplainedTo(transcript, Len(transcript), Awaited)
  BY DEF TranscriptInv, InBatch
<1> QED
  BY <1>1 DEF ExplainedTo

LEMMA TranscriptUser == TypeOK /\ TranscriptInv /\ User => TranscriptInv'
<1> SUFFICES ASSUME TypeOK, TranscriptInv, User PROVE TranscriptInv'
  OBVIOUS
<1>1. CASE UNCHANGED <<transcript, turn, pc, calls, pending, steeringAfter>>
  BY <1>1, TranscriptKept DEF InBatch, Awaited
<1>2. ASSUME NEW ms \in Seq(Msgs), NEW skip, StartRun(ms, skip), pc = "idle"
      PROVE  TranscriptInv'
  <2>1. transcript' = transcript \o UserMsgs(ms) /\ pc' = "firstPoll"
    BY <1>2 DEF StartRun
  <2>2. ~InBatch /\ ~Awaited
    BY <1>2 DEF InBatch, Awaited
  <2>3. /\ PairedTo(transcript, Len(transcript))
        /\ ExplainedTo(transcript, Len(transcript), FALSE)
    BY <2>2, Settled
  <2>4. /\ PairedTo(transcript', Len(transcript'))
        /\ ExplainedTo(transcript', Len(transcript'), FALSE)
    BY <2>1, <2>3, SaysKeeps
  <2>5. ExplainedTo(transcript', Len(transcript'), Awaited')
    BY <2>4, ExplainedWeaker
  <2> QED
    BY <2>1, <2>4, <2>5 DEF TranscriptInv
<1>3. ASSUME NEW m \in Msgs, Prompt(m) PROVE TranscriptInv'
  <2>1. StartRun(<<m>>, FALSE) /\ pc = "idle"
    BY <1>3 DEF Prompt
  <2>2. <<m>> \in Seq(Msgs)
    OBVIOUS
  <2> QED
    BY <1>2, <2>1, <2>2
<1>4. CASE Continue
  <2>1. /\ <<>> \in Seq(Msgs)
        /\ Taken(SteeringMode, steering) \in Seq(Msgs)
        /\ Taken(FollowUpMode, followUp) \in Seq(Msgs)
    BY PollType DEF TypeOK
  <2>2. /\ pc = "idle"
        /\ \/ StartRun(<<>>, FALSE)
           \/ StartRun(Taken(SteeringMode, steering), TRUE)
           \/ StartRun(Taken(FollowUpMode, followUp), FALSE)
    BY <1>4 DEF Continue
  <2> QED
    BY <1>2, <2>1, <2>2
<1> QED
  BY <1>1, <1>3, <1>4 DEF User, Steer, FollowUp, PopLastSteer, PopLastFollowUp,
     ClearAllQueues, Abort

LEMMA TranscriptModel ==
    TypeOK /\ ResultInv /\ TranscriptInv /\ Model => TranscriptInv'
<1> SUFFICES ASSUME TypeOK, ResultInv, TranscriptInv, Model PROVE TranscriptInv'
  OBVIOUS
<1>a. /\ transcript \in Seq(Entries) /\ Len(transcript) \in Nat
      /\ Len(calls) \in Nat /\ DOMAIN calls = 1..Len(calls)
      /\ pc = "streaming" /\ turn' = turn
      /\ UNCHANGED <<pending, steeringAfter>>
  BY CallsDomain, LenProperties
     DEF TypeOK, Model, ToolCallEnd, StreamDone, StreamFails
<1>b. TypeOK' /\ ResultInv'
  BY TypeModel, ResultInvModel
<1>c. /\ PairedTo(transcript, Len(transcript))
      /\ ExplainedTo(transcript, Len(transcript), FALSE)
  <2>1. ~InBatch /\ ~Awaited
    BY <1>a DEF InBatch, Awaited
  <2> QED
    BY <2>1, Settled
<1>1. ASSUME NEW st \in {"stop", "toolUse"}, CloseMessage(Len(calls'), st),
             pc' = "resolve", \A i \in DOMAIN calls' : calls'[i].result = "none"
      PROVE  TranscriptInv'
  <2>1. \E c \in Nat : OpenAt(c)'
    BY <1>1, <1>a, <1>b, <1>c, Opens
  <2> QED
    BY <1>1, <2>1 DEF TranscriptInv
<1>2. ASSUME NEW kind \in {"parallel", "sequential", "unknown"}, ToolCallEnd(kind)
      PROVE  TranscriptInv'
  <2>1. CASE pc' = "streaming" /\ transcript' = transcript
    BY <1>a, <2>1, TranscriptKept DEF InBatch, Awaited
  <2>2. CASE pc' = "resolve" /\ CloseMessage(Len(calls) + 1, "toolUse")
    <3>1. Len(calls') = Len(calls) + 1
      BY <1>2 DEF ToolCallEnd, TypeOK
    <3>2. \A i \in DOMAIN calls' : calls'[i].result = "none"
      BY <1>b, <2>2 DEF ResultInv
    <3>3. CloseMessage(Len(calls'), "toolUse")
      BY <2>2, <3>1
    <3> QED
      BY <1>1, <2>2, <3>2, <3>3
  <2>3. \/ pc' = "streaming" /\ transcript' = transcript
        \/ pc' = "resolve" /\ CloseMessage(Len(calls) + 1, "toolUse")
    BY <1>2, <1>a DEF ToolCallEnd
  <2> QED
    BY <2>1, <2>2, <2>3
<1>3. CASE StreamDone
  <2>1. CASE calls # <<>>
    <3>1. /\ CloseMessage(Len(calls'), "toolUse") /\ pc' = "resolve"
          /\ calls' = calls
      BY <1>3, <2>1 DEF StreamDone
    <3>2. \A i \in DOMAIN calls' : calls'[i].result = "none"
      BY <1>b, <3>1 DEF ResultInv
    <3> QED
      BY <1>1, <3>1, <3>2
  <2>2. CASE calls = <<>>
    <3>1. transcript' = Append(transcript, Assistant(0, "stop")) /\ pc' = "turnEnd"
      BY <1>3, <2>2 DEF StreamDone, CloseMessage
    <3>2. Assistant(0, "stop") \in Entries
      BY AssistantType
    <3>3. PICK c \in Nat : c = Len(transcript) + 1
      BY <1>a
    <3>4. /\ transcript' \in Seq(Entries) /\ Len(transcript') = c
          /\ \A k \in 1..(c - 1) : transcript'[k] = transcript[k]
          /\ transcript'[c] = Assistant(0, "stop")
      BY <1>a, <3>1, <3>2, <3>3, ExtensionByOne
    <3>5. /\ transcript'[c].role = "assistant" /\ transcript'[c].calls = 0
          /\ c - 1 = Len(transcript) /\ c \in 1..Len(transcript')
          /\ Len(transcript') = c + transcript'[c].calls
          /\ ResultsOf(transcript', c) = {} /\ 1..transcript'[c].calls = {}
      BY <1>a, <3>3, <3>4 DEF Assistant, ResultsOf
    <3>6. ~Skips(transcript', c)
      BY <3>5 DEF Skips
    <3>7. PairedTo(transcript, c - 1) /\ ExplainedTo(transcript, c - 1, FALSE)
      BY <1>c, <3>5
    <3>10. /\ c - 1 <= Len(transcript)
           /\ \A k \in ResultsOf(transcript', c) :
                 /\ transcript'[k].role = "toolResult"
                 /\ transcript'[k].turn = transcript'[c].turn
                 /\ transcript'[k].call \in 1..transcript'[c].calls
           /\ \A i \in 1..transcript'[c].calls :
                 \E k \in ResultsOf(transcript', c) : transcript'[k].call = i
      BY <1>a, <3>5
    <3>8. /\ PairedTo(transcript', Len(transcript'))
          /\ ExplainedTo(transcript', Len(transcript'), FALSE)
      BY <1>a, <3>4, <3>5, <3>6, <3>7, <3>10, AnsweredKeeps
    <3>9. ExplainedTo(transcript', Len(transcript'), Awaited')
      BY <3>8, ExplainedWeaker
    <3> QED
      BY <3>1, <3>8, <3>9 DEF TranscriptInv
  <2> QED
    BY <2>1, <2>2
<1>4. CASE StreamFails
  <2> DEFINE L == Len(calls)
  <2>1. PICK c \in Nat : c = Len(transcript) + 1
    BY <1>a
  <2>2. /\ transcript' \in Seq(Entries) /\ Len(transcript') = c + L
        /\ \A k \in 1..(c - 1) : transcript'[k] = transcript[k]
        /\ transcript'[c] = Assistant(L, StopReason)
        /\ \A i \in 1..L : transcript'[c + i] = Result(i, "aborted")
    BY <1>4, <1>a, <2>1, FailedMessage
  <2> HIDE DEF L
  <2>3. /\ L \in Nat /\ c - 1 = Len(transcript) /\ c \in 1..Len(transcript')
        /\ transcript'[c].role = "assistant" /\ transcript'[c].calls = L
        /\ transcript'[c].turn = turn
        /\ ResultsOf(transcript', c) = (c + 1)..(c + L)
    BY <1>a, <2>1, <2>2 DEF Assistant, ResultsOf, L
  <2>4. \A k \in (c + 1)..(c + L) : /\ transcript'[k].role = "toolResult"
                                    /\ transcript'[k].turn = turn
                                    /\ transcript'[k].call \in 1..L
                                    /\ transcript'[k].outcome = "aborted"
    <3> TAKE k \in (c + 1)..(c + L)
    <3>1. k - c \in 1..L /\ k = c + (k - c)
      BY <2>3
    <3>2. transcript'[k] = Result(k - c, "aborted")
      BY <2>2, <3>1
    <3> QED
      BY <3>1, <3>2 DEF Result
  <2>5. \A i \in 1..L : \E k \in (c + 1)..(c + L) : transcript'[k].call = i
    <3> TAKE i \in 1..L
    <3>1. c + i \in (c + 1)..(c + L) /\ transcript'[c + i] = Result(i, "aborted")
      BY <2>2, <2>3
    <3> QED
      BY <3>1 DEF Result
  <2>6. ~Skips(transcript', c)
    BY <2>3, <2>4 DEF Skips
  <2>7. PairedTo(transcript, c - 1) /\ ExplainedTo(transcript, c - 1, FALSE)
    BY <1>c, <2>3
  <2>11. c - 1 <= Len(transcript) /\ Len(transcript') = c + transcript'[c].calls
    BY <1>a, <2>2, <2>3
  <2>10. /\ \A k \in ResultsOf(transcript', c) :
               /\ transcript'[k].role = "toolResult"
               /\ transcript'[k].turn = transcript'[c].turn
               /\ transcript'[k].call \in 1..transcript'[c].calls
         /\ \A i \in 1..transcript'[c].calls :
               \E k \in ResultsOf(transcript', c) : transcript'[k].call = i
    BY <2>3, <2>4, <2>5
  <2>8. /\ PairedTo(transcript', Len(transcript'))
        /\ ExplainedTo(transcript', Len(transcript'), FALSE)
    BY <1>a, <2>2, <2>3, <2>6, <2>7, <2>10, <2>11, AnsweredKeeps
  <2>9. ExplainedTo(transcript', Len(transcript'), Awaited')
    BY <2>8, ExplainedWeaker
  <2> QED
    BY <1>4, <2>8, <2>9 DEF TranscriptInv, StreamFails
<1> QED
  BY <1>2, <1>3, <1>4 DEF Model

LEMMA SameLength ==
    ASSUME NEW m \in Nat, NEW n \in Nat, 1..m = 1..n PROVE m = n
<1>1. m \in 1..n \/ m = 0
  BY SMT
<1>2. n \in 1..m \/ n = 0
  BY SMT
<1> QED
  BY <1>1, <1>2, SMT

LEMMA TranscriptTools == TypeOK /\ TranscriptInv /\ Tools => TranscriptInv'
<1> SUFFICES ASSUME TypeOK, TranscriptInv, Tools PROVE TranscriptInv'
  OBVIOUS
<1>1. UNCHANGED <<transcript, turn, pc, pending, steeringAfter>>
  BY DEF Tools, ToolFinishes, OrphanFinishes
<1>2. /\ Len(calls') = Len(calls)
      /\ \A i \in 1..Len(calls) : calls'[i].result = calls[i].result
  <2>1. ASSUME NEW i \in 1..MaxCalls, ToolFinishes(i)
        PROVE  /\ Len(calls') = Len(calls)
               /\ \A k \in 1..Len(calls) : calls'[k].result = calls[k].result
    BY <2>1, CallsDomain DEF ToolFinishes, TypeOK, Call
  <2>2. (\E o \in orphans : OrphanFinishes(o)) => calls' = calls
    BY DEF OrphanFinishes
  <2> QED
    BY <2>1, <2>2 DEF Tools
<1> QED
  BY <1>1, <1>2, TranscriptKept DEF InBatch, Awaited

LEMMA TranscriptLoop ==
    ASSUME ~ResolveMayThrow, TypeOK, BatchInv, InterruptInv, ResultInv,
           TranscriptInv, Loop
    PROVE  TranscriptInv'
<1>a. /\ Len(calls) \in Nat /\ DOMAIN calls = 1..Len(calls)
      /\ \A i \in DOMAIN calls : calls[i] \in Call
  BY CallsDomain DEF TypeOK
<1>b. TypeOK' /\ ResultInv'
  BY TypeLoop, ResultInvLoop
<1>c. DOMAIN calls' = DOMAIN calls => Len(calls') = Len(calls)
  <2>1. Len(calls') \in Nat /\ DOMAIN calls' = 1..Len(calls')
    BY <1>b, LenProperties DEF TypeOK
  <2> QED
    BY <1>a, <2>1, SameLength
<1>1. CASE FirstPoll \/ FollowUpPoll \/ RequestFails
  <2>1. UNCHANGED <<transcript, turn>> /\ ~InBatch /\ ~InBatch'
    BY <1>1 DEF FirstPoll, FollowUpPoll, RequestFails, InBatch
  <2>2. ~Awaited
    BY <1>1 DEF FirstPoll, FollowUpPoll, RequestFails, Awaited
  <2> QED
    BY <2>1, <2>2, TranscriptKept
<1>2. CASE OpenStream
  <2>1. transcript' = transcript /\ ~InBatch /\ ~Awaited /\ pc' = "streaming"
    BY <1>2 DEF OpenStream, InBatch, Awaited
  <2>2. /\ PairedTo(transcript, Len(transcript))
        /\ ExplainedTo(transcript, Len(transcript), FALSE)
    BY <2>1, Settled
  <2>3. ExplainedTo(transcript, Len(transcript), Awaited')
    BY <2>2, ExplainedWeaker
  <2> QED
    BY <2>1, <2>2, <2>3 DEF TranscriptInv
<1>3. CASE StartTurn
  <2>1. /\ transcript' = transcript \o UserMsgs(pending) /\ pending \in Seq(Msgs)
        /\ pc = "inner" /\ pc' = "request"
    BY <1>3 DEF StartTurn, TypeOK
  <2>2. /\ PairedTo(transcript, Len(transcript))
        /\ ExplainedTo(transcript, Len(transcript), Awaited)
    BY <2>1 DEF TranscriptInv
  <2>3. Awaited => pending # <<>>
    BY <2>1 DEF Awaited
  <2>4. /\ PairedTo(transcript', Len(transcript'))
        /\ ExplainedTo(transcript', Len(transcript'), FALSE)
    <3>1. ASSUME NEW w \in BOOLEAN, w <=> Awaited
          PROVE  /\ PairedTo(transcript', Len(transcript'))
                 /\ ExplainedTo(transcript', Len(transcript'), FALSE)
      <4>1. ExplainedTo(transcript, Len(transcript), w)
        BY <2>2, <3>1, ExplainedWeaker
      <4>2. w => pending # <<>>
        BY <2>3, <3>1
      <4> QED
        BY <2>1, <2>2, <4>1, <4>2, SaysKeeps
    <3> QED
      BY <3>1
  <2>5. ExplainedTo(transcript', Len(transcript'), Awaited')
    BY <2>4, ExplainedWeaker
  <2> QED
    BY <2>1, <2>4, <2>5 DEF TranscriptInv
<1>4. ASSUME NEW found \in [1..MaxCalls -> {"parallel", "sequential", "missing"}],
             ResolveTools(found)
      PROVE  TranscriptInv'
  <2>1. /\ UNCHANGED <<transcript, turn>> /\ pc = "resolve" /\ pc' = "batch"
    BY <1>4 DEF ResolveTools
  <2>2. DOMAIN calls' = DOMAIN calls
    BY <1>4 DEF ResolveTools
  <2>3. Len(calls') = Len(calls)
    BY <1>c, <2>2
  <2>4. \A i \in 1..Len(calls) : calls[i].result = "none" /\ calls[i].step = "waiting"
    BY <1>a, <2>1 DEF ResultInv, BatchInv
  <2>5. \A i \in 1..Len(calls) : calls'[i].result = "none"
    <3> DEFINE known == [i \in DOMAIN calls |->
                           IF calls[i].tool = "unknown"
                           THEN [calls[i] EXCEPT !.tool = found[i]] ELSE calls[i]]
    <3>1. \A i \in 1..Len(calls) : known[i].result = "none" /\ known[i] \in Call
      <4>1. \A i \in 1..Len(calls) : i \in 1..MaxCalls
        BY <1>a, ConfigAssumption DEF TypeOK
      <4> QED
        BY <1>a, <2>4, <4>1 DEF Call
    <3>2. DOMAIN known = 1..Len(calls)
      BY <1>a
    <3>3. calls' = known \/ calls' = [i \in DOMAIN known |-> Started(known[i])]
      BY <1>4 DEF ResolveTools
    <3> HIDE DEF known
    <3>4. \A c \in Call : Started(c).result = c.result
      BY DEF Started, Call
    <3>5. CASE calls' = known
      BY <3>1, <3>5
    <3>6. CASE calls' = [i \in DOMAIN known |-> Started(known[i])]
      <4>1. \A i \in 1..Len(calls) : calls'[i] = Started(known[i])
        BY <3>2, <3>6
      <4> QED
        BY <3>1, <3>4, <4>1
    <3> QED
      BY <3>3, <3>5, <3>6
  <2> QED
    BY <2>1, <2>3, <2>4, <2>5, TranscriptKept DEF InBatch
<1>5. CASE ResolveThrows
  BY <1>5 DEF ResolveThrows
<1>6. ASSUME NEW i \in 1..MaxCalls, StartNext(i) PROVE TranscriptInv'
  <2>1. /\ i \in DOMAIN calls /\ calls' = [calls EXCEPT ![i] = Started(calls[i])]
        /\ UNCHANGED <<transcript, turn, pc>> /\ pc = "batch"
    BY <1>6 DEF StartNext
  <2>2. /\ DOMAIN calls' = DOMAIN calls
        /\ \A k \in DOMAIN calls : calls'[k].result = calls[k].result
    BY <1>a, <2>1 DEF Started, Call
  <2> QED
    BY <1>a, <1>c, <2>1, <2>2, TranscriptKept DEF InBatch
<1>7. ASSUME NEW i \in 1..MaxCalls, EmitResult(i) PROVE TranscriptInv'
  <2>1. pc = "batch" /\ pc' = "batch"
    BY <1>7 DEF EmitResult
  <2>2. PICK c \in Nat : OpenAt(c)
    BY <2>1 DEF TranscriptInv
  <2>3. OpenAt(c)'
    BY <1>7, <2>2, OpenGrows
  <2> QED
    BY <2>1, <2>3 DEF TranscriptInv
<1>8. CASE CheckReturns
  <2>1. /\ DOMAIN calls' = DOMAIN calls
        /\ \A k \in DOMAIN calls : calls'[k].result = calls[k].result
    BY <1>8, <1>a DEF CheckReturns, Call
  <2>2. UNCHANGED <<transcript, turn, pc>> /\ pc = "batch"
    BY <1>8 DEF CheckReturns, InterruptInv
  <2> QED
    BY <1>a, <1>c, <2>1, <2>2, TranscriptKept DEF InBatch
<1>9. CASE SettleBatch
  <2>1. pc = "batch" /\ pc' \in {"idle", "turnEnd"}
    BY <1>9 DEF SettleBatch, BatchOver
  <2>2. PICK c \in Nat : OpenAt(c)
    BY <2>1 DEF TranscriptInv
  <2>3. /\ PairedTo(transcript', Len(transcript'))
        /\ ExplainedTo(transcript', Len(transcript'), Awaited')
    BY <1>9, <2>2, Closes
  <2> QED
    BY <2>1, <2>3 DEF TranscriptInv
<1>10. CASE TurnEnd
  <2>1. UNCHANGED <<transcript, turn>> /\ ~InBatch /\ ~InBatch'
    BY <1>10 DEF TurnEnd, InBatch
  <2>2. Awaited => Awaited'
    BY <1>10 DEF TurnEnd, Awaited, Interrupting
  <2> QED
    BY <2>1, <2>2, TranscriptKept
<1> QED
  BY <1>1, <1>2, <1>3, <1>4, <1>5, <1>6, <1>7, <1>8, <1>9, <1>10 DEF Loop

LEMMA TranscriptInvHolds ==
    ASSUME ~ResolveMayThrow PROVE Spec => []TranscriptInv
<1>1. Init => TranscriptInv
  <2> SUFFICES ASSUME Init PROVE TranscriptInv
    OBVIOUS
  <2>1. /\ pc = "idle" /\ Len(transcript) = 0
        /\ \A n \in {Len(transcript)} : 1..n = {}
    BY DEF Init
  <2> QED
    BY <2>1 DEF TranscriptInv, PairedTo, ExplainedTo
<1>2. TypeOK /\ BatchInv /\ InterruptInv /\ ResultInv /\ TranscriptInv /\ [Next]_vars
         => TranscriptInv'
  <2> SUFFICES ASSUME TypeOK, BatchInv, InterruptInv, ResultInv, TranscriptInv,
                      [Next]_vars
               PROVE  TranscriptInv'
    OBVIOUS
  <2>1. CASE UNCHANGED vars
    BY <2>1, TranscriptKept DEF vars, InBatch, Awaited
  <2> QED
    BY <2>1, TranscriptUser, TranscriptModel, TranscriptTools, TranscriptLoop DEF Next
<1> QED
  BY <1>1, <1>2, ResultInvHolds, PTL DEF Spec

(* While resolveUnknownTool does not reject, every tool call of every      *)
(* message is answered by exactly one result, right behind the message,    *)
(* through early dispatch, cut messages, interrupts, halts, errors and     *)
(* aborts (agent-loop.ts 283-293, 726, 899-904).                           *)
THEOREM EveryCallIsAnswered == ASSUME ~ResolveMayThrow PROVE Spec => []ToolResultPairing
<1>1. TypeOK /\ TranscriptInv => ToolResultPairing
  <2> SUFFICES ASSUME TypeOK, TranscriptInv, pc \notin {"resolve", "batch"}
               PROVE  /\ \A a \in DOMAIN transcript : IsAssistant(a) =>
                            /\ Answers(a) \subseteq DOMAIN transcript
                            /\ \A k \in Answers(a) :
                                  IsResult(k) /\ transcript[k].turn = transcript[a].turn
                            /\ {transcript[k].call : k \in Answers(a)}
                                  = 1..transcript[a].calls
                      /\ \A k \in DOMAIN transcript : IsResult(k) =>
                            \E a \in 1..(k - 1) : IsAssistant(a) /\ k \in Answers(a)
    BY DEF ToolResultPairing
  <2>1. /\ DOMAIN transcript = 1..Len(transcript) /\ Len(transcript) \in Nat
        /\ \A k \in 1..Len(transcript) : transcript[k].role = "assistant" =>
              transcript[k].calls \in Nat
    BY EntryFields DEF TypeOK
  <2>2. PairedTo(transcript, Len(transcript))
    BY DEF TranscriptInv
  <2>3. \A a : Answers(a) = ResultsOf(transcript, a)
    BY DEF Answers, ResultsOf
  <2>4. ASSUME NEW a \in 1..Len(transcript), IsAssistant(a)
        PROVE  /\ Answers(a) \subseteq 1..Len(transcript)
               /\ \A k \in Answers(a) :
                     IsResult(k) /\ transcript[k].turn = transcript[a].turn
               /\ {transcript[k].call : k \in Answers(a)} = 1..transcript[a].calls
    <3>1. /\ a + transcript[a].calls <= Len(transcript)
          /\ \A k \in Answers(a) : /\ transcript[k].role = "toolResult"
                                   /\ transcript[k].turn = transcript[a].turn
                                   /\ transcript[k].call \in 1..transcript[a].calls
          /\ \A i \in 1..transcript[a].calls :
                \E k \in Answers(a) : transcript[k].call = i
      BY <2>2, <2>3, <2>4 DEF PairedTo, IsAssistant
    <3>2. Answers(a) \subseteq 1..Len(transcript)
      BY <2>1, <2>4, <3>1 DEF Answers, IsAssistant
    <3>3. {transcript[k].call : k \in Answers(a)} = 1..transcript[a].calls
      BY <3>1
    <3> QED
      BY <3>1, <3>2, <3>3 DEF IsResult
  <2>5. \A k \in 1..Len(transcript) : IsResult(k) =>
           \E a \in 1..(k - 1) : IsAssistant(a) /\ k \in Answers(a)
    BY <2>2, <2>3 DEF PairedTo, IsResult, IsAssistant
  <2> QED
    BY <2>1, <2>4, <2>5
<1> QED
  BY <1>1, TypeCorrect, TranscriptInvHolds, PTL

(* Then a batch that skipped a call and did not halt is followed at once   *)
(* by the user message that interrupted it (agent-loop.ts 342-344).        *)
THEOREM EverySkipIsExplained == ASSUME ~ResolveMayThrow PROVE Spec => []SkipIsExplained
<1>1. TypeOK /\ TranscriptInv => SkipIsExplained
  <2> SUFFICES ASSUME TypeOK, TranscriptInv, NEW a \in DOMAIN transcript,
                      IsAssistant(a),
                      a + transcript[a].calls + 1 \in DOMAIN transcript,
                      \E k \in Answers(a) : transcript[k].outcome = "skipped",
                      \A k \in Answers(a) : transcript[k].outcome # "halt"
               PROVE  IsUser(a + transcript[a].calls + 1)
    BY DEF SkipIsExplained
  <2>1. /\ DOMAIN transcript = 1..Len(transcript) /\ Len(transcript) \in Nat
        /\ a \in Nat /\ transcript[a].calls \in Nat
    <3>1. transcript \in Seq(Entries)
      BY DEF TypeOK
    <3>2. DOMAIN transcript = 1..Len(transcript) /\ Len(transcript) \in Nat
      BY <3>1, EntryFields
    <3> QED
      BY <3>1, <3>2, EntryFields DEF IsAssistant
  <2>2. Skips(transcript, a)
    BY DEF Skips, ResultsOf, Answers, IsAssistant
  <2>3. CASE pc \in {"resolve", "batch"}
    <3>1. PICK c \in Nat : OpenAt(c)
      BY <2>3 DEF TranscriptInv
    <3>2. a \in 1..c
      BY <2>1, <3>1 DEF OpenAt, IsAssistant
    <3>3. CASE a = c
      <4>1. Len(transcript) <= c + Len(calls) /\ transcript[a].calls = Len(calls)
        BY <3>1, <3>3, OpenBound DEF OpenAt
      <4> QED
        BY <2>1, <3>3, <4>1
    <3>4. CASE a \in 1..(c - 1)
      BY <2>2, <3>1, <3>4 DEF OpenAt, ExplainedTo, IsUser
    <3> QED
      BY <3>2, <3>3, <3>4
  <2>4. CASE pc \notin {"resolve", "batch"}
    <3>1. ExplainedTo(transcript, Len(transcript), Awaited)
      BY <2>4 DEF TranscriptInv
    <3> QED
      BY <2>1, <2>2, <3>1 DEF ExplainedTo, IsUser
  <2> QED
    BY <2>3, <2>4
<1> QED
  BY <1>1, TypeCorrect, TranscriptInvHolds, PTL

-----------------------------------------------------------------------------
(* Sequences of messages: a sequence is injective when no message is in it *)
(* twice; its range is the set of its messages.                            *)

LEMMA OnceEmpty == IsInjective(<<>>) /\ Range(<<>>) = {}
BY DEF IsInjective, Range

LEMMA OnceSingle == ASSUME NEW m PROVE IsInjective(<<m>>) /\ Range(<<m>>) = {m}
BY DEF IsInjective, Range

LEMMA JoinElements ==
    ASSUME NEW S, NEW s \in Seq(S), NEW t \in Seq(S)
    PROVE  /\ s \o t \in Seq(S)
           /\ Len(s) \in Nat /\ Len(t) \in Nat
           /\ DOMAIN s = 1..Len(s) /\ DOMAIN t = 1..Len(t)
           /\ DOMAIN (s \o t) = 1..(Len(s) + Len(t))
           /\ \A k \in 1..Len(s) : (s \o t)[k] = s[k]
           /\ \A k \in 1..Len(t) : (s \o t)[Len(s) + k] = t[k]
           /\ \A k \in 1..(Len(s) + Len(t)) :
                 k \in 1..Len(s) \/ (k - Len(s) \in 1..Len(t) /\ k = Len(s) + (k - Len(s)))
<1>1. /\ Len(s) \in Nat /\ Len(t) \in Nat
      /\ DOMAIN s = 1..Len(s) /\ DOMAIN t = 1..Len(t)
  BY LenProperties
<1>2. /\ s \o t \in Seq(S)
      /\ Len(s \o t) = Len(s) + Len(t)
      /\ \A k \in 1..Len(s) + Len(t) :
            (s \o t)[k] = IF k <= Len(s) THEN s[k] ELSE t[k - Len(s)]
  BY ConcatProperties
<1>3. DOMAIN (s \o t) = 1..(Len(s) + Len(t))
  BY <1>2, LenProperties
<1>4. \A k \in 1..Len(s) : (s \o t)[k] = s[k]
  BY <1>1, <1>2
<1>5. \A k \in 1..Len(t) : (s \o t)[Len(s) + k] = t[k]
  <2> TAKE k \in 1..Len(t)
  <2>1. /\ Len(s) + k \in 1..Len(s) + Len(t) /\ ~(Len(s) + k <= Len(s))
        /\ (Len(s) + k) - Len(s) = k
    BY <1>1
  <2> QED
    BY <1>2, <2>1
<1>6. \A k \in 1..(Len(s) + Len(t)) :
         k \in 1..Len(s) \/ (k - Len(s) \in 1..Len(t) /\ k = Len(s) + (k - Len(s)))
  BY <1>1
<1> QED
  BY <1>1, <1>2, <1>3, <1>4, <1>5, <1>6

(* Joining two sequences without a common message, and taking one apart.   *)
LEMMA OnceJoined ==
    ASSUME NEW S, NEW s \in Seq(S), NEW t \in Seq(S),
           IsInjective(s), IsInjective(t), Range(s) \cap Range(t) = {}
    PROVE  IsInjective(s \o t) /\ Range(s \o t) = Range(s) \cup Range(t)
<1> DEFINE u == s \o t
<1>a. /\ Len(s) \in Nat /\ Len(t) \in Nat
      /\ DOMAIN s = 1..Len(s) /\ DOMAIN t = 1..Len(t)
      /\ DOMAIN u = 1..(Len(s) + Len(t))
      /\ \A k \in 1..Len(s) : u[k] = s[k]
      /\ \A k \in 1..Len(t) : u[Len(s) + k] = t[k]
      /\ \A k \in 1..(Len(s) + Len(t)) :
            k \in 1..Len(s) \/ (k - Len(s) \in 1..Len(t) /\ k = Len(s) + (k - Len(s)))
  BY JoinElements
<1>b. Range(u) = Range(s) \cup Range(t)
  BY RangeConcatenation
<1> HIDE DEF u
<1>1. \A k \in 1..Len(s) : u[k] \in Range(s)
  BY <1>a DEF Range
<1>2. \A k \in 1..Len(t) : u[Len(s) + k] \in Range(t)
  BY <1>a DEF Range
<1>3. \A k, l \in 1..(Len(s) + Len(t)) : u[k] = u[l] => k = l
  <2> TAKE k, l \in 1..(Len(s) + Len(t))
  <2>1. CASE k \in 1..Len(s) /\ l \in 1..Len(s)
    BY <1>a, <2>1 DEF IsInjective
  <2>2. CASE k \in 1..Len(s) /\ l \notin 1..Len(s)
    BY <1>a, <1>1, <1>2, <2>2
  <2>3. CASE k \notin 1..Len(s) /\ l \in 1..Len(s)
    BY <1>a, <1>1, <1>2, <2>3
  <2>4. CASE k \notin 1..Len(s) /\ l \notin 1..Len(s)
    <3>1. /\ k - Len(s) \in 1..Len(t) /\ k = Len(s) + (k - Len(s))
          /\ l - Len(s) \in 1..Len(t) /\ l = Len(s) + (l - Len(s))
      BY <1>a, <2>4
    <3>2. u[k] = t[k - Len(s)] /\ u[l] = t[l - Len(s)]
      BY <1>a, <3>1
    <3>3. u[k] = u[l] => k - Len(s) = l - Len(s)
      BY <1>a, <3>1, <3>2 DEF IsInjective
    <3> QED
      BY <3>1, <3>3
  <2> QED
    BY <2>1, <2>2, <2>3, <2>4
<1>4. IsInjective(u)
  BY <1>a, <1>3 DEF IsInjective
<1> QED
  BY <1>b, <1>4 DEF u

LEMMA OnceParted ==
    ASSUME NEW S, NEW s \in Seq(S), NEW t \in Seq(S), IsInjective(s \o t)
    PROVE  /\ IsInjective(s) /\ IsInjective(t)
           /\ Range(s) = Range(s \o t) \ Range(t)
           /\ Range(t) = Range(s \o t) \ Range(s)
           /\ Range(s) \subseteq Range(s \o t) /\ Range(t) \subseteq Range(s \o t)
<1> DEFINE u == s \o t
<1>a. /\ Len(s) \in Nat /\ Len(t) \in Nat
      /\ DOMAIN s = 1..Len(s) /\ DOMAIN t = 1..Len(t)
      /\ DOMAIN u = 1..(Len(s) + Len(t))
      /\ \A k \in 1..Len(s) : u[k] = s[k]
      /\ \A k \in 1..Len(t) : u[Len(s) + k] = t[k]
  BY JoinElements
<1>b. Range(u) = Range(s) \cup Range(t)
  BY RangeConcatenation
<1>c. IsInjective(u)
  OBVIOUS
<1> HIDE DEF u
<1>1. \A k \in 1..Len(s) : k \in DOMAIN u
  BY <1>a
<1>2. \A k \in 1..Len(t) : Len(s) + k \in DOMAIN u
  BY <1>a
<1>3. IsInjective(s)
  BY <1>a, <1>c, <1>1 DEF IsInjective
<1>4. IsInjective(t)
  <2> SUFFICES ASSUME NEW k \in 1..Len(t), NEW l \in 1..Len(t), t[k] = t[l]
               PROVE  k = l
    BY <1>a DEF IsInjective
  <2>1. Len(s) + k = Len(s) + l
    BY <1>a, <1>c, <1>2 DEF IsInjective
  <2> QED
    BY <1>a, <2>1
<1>5. Range(s) \cap Range(t) = {}
  <2> SUFFICES ASSUME NEW k \in 1..Len(s), NEW l \in 1..Len(t), s[k] = t[l]
               PROVE  FALSE
    BY <1>a DEF Range
  <2>1. k = Len(s) + l
    BY <1>a, <1>c, <1>1, <1>2 DEF IsInjective
  <2> QED
    BY <1>a, <2>1
<1> QED
  BY <1>b, <1>3, <1>4, <1>5 DEF u

(* What the queue operations do to a queue without repetitions.            *)
LEMMA OnceAppended ==
    ASSUME NEW S, NEW s \in Seq(S), NEW m \in S, IsInjective(s), m \notin Range(s)
    PROVE  IsInjective(Append(s, m)) /\ Range(Append(s, m)) = Range(s) \cup {m}
<1>a. <<m>> \in Seq(S)
  OBVIOUS
<1>1. PICK e \in Seq(S) : e = <<m>>
  BY <1>a, Zenon
<1>2. Append(s, m) = s \o e
  BY <1>1, AppendIsConcat
<1>3. IsInjective(e) /\ Range(e) = {m}
  BY <1>1, OnceSingle
<1>4. Range(s) \cap Range(e) = {}
  BY <1>3
<1>5. IsInjective(s \o e) /\ Range(s \o e) = Range(s) \cup Range(e)
  BY <1>3, <1>4, OnceJoined
<1> QED
  BY <1>2, <1>3, <1>5

LEMMA OncePopped ==
    ASSUME NEW S, NEW s \in Seq(S), s # <<>>, IsInjective(s)
    PROVE  /\ IsInjective(SubSeq(s, 1, Len(s) - 1))
           /\ Range(SubSeq(s, 1, Len(s) - 1)) = Range(s) \ {s[Len(s)]}
           /\ s[Len(s)] \in Range(s)
<1>1. PICK f \in Seq(S), m \in S : s = Append(f, m)
  BY SequenceEmptyOrAppend
<1>2. /\ Len(f) \in Nat /\ Len(s) = Len(f) + 1 /\ s[Len(s)] = m
      /\ \A i \in 1..Len(f) : s[i] = f[i]
  BY <1>1, AppendProperties, LenProperties
<1>3. SubSeq(s, 1, Len(s) - 1) = f
  <2> DEFINE p == SubSeq(s, 1, Len(s) - 1)
  <2>1. Len(s) - 1 = Len(f) /\ Len(s) - 1 \in Int /\ 1 \in Int
    BY <1>2
  <2>2. \A i \in 1..(Len(s) - 1) : s[i] \in S
    BY <1>2, ElementOfSeq
  <2>3. /\ p \in Seq(S)
        /\ Len(p) = IF 1 <= Len(s) - 1 THEN (Len(s) - 1) - 1 + 1 ELSE 0
        /\ \A i \in 1..((Len(s) - 1) - 1 + 1) : p[i] = s[1 + i - 1]
    BY <2>1, <2>2, SubSeqProperties
  <2> HIDE DEF p
  <2>4. Len(p) = Len(f) /\ \A i \in 1..Len(f) : p[i] = f[i]
    BY <1>2, <2>1, <2>3
  <2>5. p = f
    BY <2>3, <2>4, SeqEqual
  <2> QED
    BY <2>5 DEF p
<1>4. <<m>> \in Seq(S) /\ s = f \o <<m>>
  BY <1>1, AppendIsConcat
<1>5. IsInjective(f) /\ Range(f) = Range(s) \ Range(<<m>>) /\ Range(<<m>>) \subseteq Range(s)
  BY <1>4, OnceParted
<1>6. Range(<<m>>) = {m}
  BY OnceSingle
<1> QED
  BY <1>2, <1>3, <1>5, <1>6

LEMMA OnceTaken ==
    ASSUME NEW S, NEW q \in Seq(S), NEW mode, IsInjective(q)
    PROVE  /\ IsInjective(Taken(mode, q)) /\ IsInjective(Left(mode, q))
           /\ Range(Taken(mode, q)) \subseteq Range(q)
           /\ Range(Left(mode, q)) = Range(q) \ Range(Taken(mode, q))
<1>1. CASE mode = "all" \/ q = <<>>
  <2>1. Taken(mode, q) = q /\ Left(mode, q) = <<>>
    BY <1>1 DEF Taken, Left
  <2> QED
    BY <2>1, OnceEmpty
<1>2. CASE ~(mode = "all" \/ q = <<>>)
  <2>1. Taken(mode, q) = <<Head(q)>> /\ Left(mode, q) = Tail(q)
    BY <1>2 DEF Taken, Left
  <2>2. Head(q) \in S /\ Tail(q) \in Seq(S) /\ <<Head(q)>> \in Seq(S)
    BY <1>2, HeadTailProperties
  <2>3. PICK h \in Seq(S), r \in Seq(S) : h = <<Head(q)>> /\ r = Tail(q)
    BY <2>2
  <2>4. q = h \o r
    BY <1>2, <2>3
  <2>5. /\ IsInjective(h) /\ IsInjective(r)
        /\ Range(r) = Range(q) \ Range(h) /\ Range(h) \subseteq Range(q)
    BY <2>4, OnceParted
  <2> QED
    BY <2>1, <2>3, <2>5
<1> QED
  BY <1>1, <1>2

(* The user messages of a transcript, and that none is said twice.         *)
SaidIn(t) == {t[k].msg : k \in {j \in 1..Len(t) : t[j].role = "user"}}
SaidOnce(t) ==
    \A i, j \in 1..Len(t) :
       t[i].role = "user" /\ t[j].role = "user" /\ t[i].msg = t[j].msg => i = j

LEMMA SaysMore ==
    ASSUME NEW t \in Seq(Entries), NEW ms \in Seq(Msgs), SaidOnce(t),
           IsInjective(ms), SaidIn(t) \cap Range(ms) = {}
    PROVE  /\ SaidOnce(t \o UserMsgs(ms))
           /\ SaidIn(t \o UserMsgs(ms)) = SaidIn(t) \cup Range(ms)
<1> DEFINE u == t \o UserMsgs(ms)
           n == Len(t)
<1>a. /\ n \in Nat /\ Len(ms) \in Nat /\ Len(u) = n + Len(ms) /\ Len(u) \in Nat
      /\ \A k \in 1..n : u[k] = t[k]
      /\ \A i \in 1..Len(ms) : u[n + i] = UserMsg(ms[i])
      /\ DOMAIN ms = 1..Len(ms)
  BY SaysUsers, LenProperties
<1> HIDE DEF u, n
<1>b. \A k \in 1..Len(u) : k \in 1..n \/ (k - n \in 1..Len(ms) /\ k = n + (k - n))
  BY <1>a
<1>c. \A i \in 1..Len(ms) : /\ u[n + i].role = "user" /\ u[n + i].msg = ms[i]
                            /\ ms[i] \in Range(ms) /\ n + i \in 1..Len(u)
  <2> TAKE i \in 1..Len(ms)
  <2>1. n + i \in 1..Len(u)
    BY <1>a
  <2>2. ms[i] \in Range(ms)
    BY <1>a DEF Range
  <2> QED
    <3>1. u[n + i] = UserMsg(ms[i])
      BY <1>a
    <3> QED
      BY <2>1, <2>2, <3>1 DEF UserMsg
<1>d. \A k \in 1..n : /\ u[k] = t[k] /\ k \in 1..Len(u)
                      /\ t[k].role = "user" => t[k].msg \in SaidIn(t)
  BY <1>a DEF SaidIn, n
<1>1. SaidOnce(u)
  <2> SUFFICES ASSUME NEW i \in 1..Len(u), NEW j \in 1..Len(u),
                      u[i].role = "user", u[j].role = "user", u[i].msg = u[j].msg
               PROVE  i = j
    BY DEF SaidOnce
  <2>1. CASE i \in 1..n /\ j \in 1..n
    BY <1>d, <2>1 DEF SaidOnce, n
  <2>2. CASE i \in 1..n /\ j \notin 1..n
    BY <1>b, <1>c, <1>d, <2>2
  <2>3. CASE i \notin 1..n /\ j \in 1..n
    BY <1>b, <1>c, <1>d, <2>3
  <2>4. CASE i \notin 1..n /\ j \notin 1..n
    <3>1. /\ i - n \in 1..Len(ms) /\ i = n + (i - n)
          /\ j - n \in 1..Len(ms) /\ j = n + (j - n)
      BY <1>b, <2>4
    <3>2. ms[i - n] = ms[j - n]
      BY <1>c, <3>1
    <3>3. i - n = j - n
      BY <1>a, <3>1, <3>2 DEF IsInjective
    <3> QED
      BY <3>1, <3>3
  <2> QED
    BY <2>1, <2>2, <2>3, <2>4
<1>2. SaidIn(u) = SaidIn(t) \cup Range(ms)
  <2>1. \A k \in 1..Len(u) : u[k].role = "user" => u[k].msg \in SaidIn(t) \cup Range(ms)
    <3> SUFFICES ASSUME NEW k \in 1..Len(u), u[k].role = "user"
                 PROVE  u[k].msg \in SaidIn(t) \cup Range(ms)
      OBVIOUS
    <3>1. CASE k \in 1..n
      BY <1>d, <3>1
    <3>2. CASE k - n \in 1..Len(ms) /\ k = n + (k - n)
      BY <1>c, <3>2
    <3> QED
      BY <1>b, <3>1, <3>2
  <2>2. \A m \in SaidIn(t) : m \in SaidIn(u)
    BY <1>d DEF SaidIn, n
  <2>3. \A m \in Range(ms) : m \in SaidIn(u)
    <3> TAKE m \in Range(ms)
    <3>1. PICK i \in 1..Len(ms) : m = ms[i]
      BY <1>a DEF Range
    <3> QED
      BY <1>c, <3>1 DEF SaidIn
  <2> QED
    BY <2>1, <2>2, <2>3 DEF SaidIn
<1> QED
  BY <1>1, <1>2 DEF u

(* Entries that are no user messages say nothing.                          *)
LEMMA SaysNoMore ==
    ASSUME NEW t \in Seq(Entries), NEW u \in Seq(Entries), Len(t) <= Len(u),
           \A k \in 1..Len(t) : u[k] = t[k],
           \A k \in (Len(t) + 1)..Len(u) : u[k].role # "user"
    PROVE  (SaidOnce(t) => SaidOnce(u)) /\ SaidIn(u) = SaidIn(t)
<1>a. Len(t) \in Nat /\ Len(u) \in Nat
  BY LenProperties
<1>1. \A k \in 1..Len(u) : u[k].role = "user" => k \in 1..Len(t)
  BY <1>a
<1>2. \A k \in 1..Len(t) : k \in 1..Len(u) /\ u[k] = t[k]
  BY <1>a
<1> QED
  BY <1>1, <1>2 DEF SaidOnce, SaidIn

-----------------------------------------------------------------------------
(* Where every message is.                                                 *)

Places == {"unsent", "steering", "followUp", "removed", "dropped", "pending",
           "polled", "interrupting", "said"}

At(p) ==
    CASE p = "unsent"       -> unsent
      [] p = "steering"     -> Range(steering)
      [] p = "followUp"     -> Range(followUp)
      [] p = "removed"      -> removed
      [] p = "dropped"      -> dropped
      [] p = "pending"      -> Range(pending)
      [] p = "polled"       -> Range(polled)
      [] p = "interrupting" -> Range(steeringAfter)
      [] p = "said"         -> SaidIn(transcript)

(* Every message is in one place, and there it is once.                    *)
InOnePlace ==
    /\ \A m \in Msgs : \E p \in Places : m \in At(p)
    /\ \A p, q \in Places : p # q => At(p) \cap At(q) = {}

NoRepetition ==
    /\ IsInjective(steering) /\ IsInjective(followUp) /\ IsInjective(pending)
    /\ IsInjective(polled) /\ IsInjective(steeringAfter)
    /\ SaidOnce(transcript)

MessageInv == InOnePlace /\ NoRepetition

LEMMA AtPlaces ==
    /\ At("unsent") = unsent /\ At("steering") = Range(steering)
    /\ At("followUp") = Range(followUp) /\ At("removed") = removed
    /\ At("dropped") = dropped /\ At("pending") = Range(pending)
    /\ At("polled") = Range(polled) /\ At("interrupting") = Range(steeringAfter)
    /\ At("said") = SaidIn(transcript)
BY DEF At

LEMMA AtPlacesNext ==
    /\ At("unsent")' = unsent' /\ At("steering")' = Range(steering')
    /\ At("followUp")' = Range(followUp') /\ At("removed")' = removed'
    /\ At("dropped")' = dropped' /\ At("pending")' = Range(pending')
    /\ At("polled")' = Range(polled') /\ At("interrupting")' = Range(steeringAfter')
    /\ At("said")' = SaidIn(transcript')
BY DEF At

(* Messages X go to one place.                                             *)
LEMMA Moved ==
    ASSUME InOnePlace, NEW X \in SUBSET Msgs, NEW to \in Places,
           \A p \in Places : At(p)' = IF p = to THEN At(p) \cup X ELSE At(p) \ X
    PROVE  InOnePlace'
<1>1. ASSUME NEW m \in Msgs PROVE \E p \in Places : m \in At(p)'
  <2>1. CASE m \in X
    BY <2>1
  <2>2. CASE m \notin X
    BY <2>2 DEF InOnePlace
  <2> QED
    BY <2>1, <2>2
<1>2. ASSUME NEW p \in Places, NEW q \in Places, p # q
      PROVE  At(p)' \cap At(q)' = {}
  BY <1>2 DEF InOnePlace
<1> QED
  BY <1>1, <1>2 DEF InOnePlace

(* Messages X go from one place to another.                                *)
Moves(X, from, to) ==
    /\ X \subseteq Msgs /\ X \subseteq At(from) /\ from # to
    /\ from \in Places /\ to \in Places
    /\ At(from)' = At(from) \ X
    /\ At(to)' = At(to) \cup X
    /\ \A p \in Places : p # from /\ p # to => At(p)' = At(p)

LEMMA MovedFrom ==
    ASSUME InOnePlace, NEW X, NEW from, NEW to, Moves(X, from, to)
    PROVE  InOnePlace'
<1>1. \A p \in Places : p # from => At(p) \cap X = {}
  BY DEF InOnePlace, Moves
<1>2. \A p \in Places : At(p)' = IF p = to THEN At(p) \cup X ELSE At(p) \ X
  BY <1>1 DEF Moves
<1> QED
  BY <1>2, Moved DEF Moves

LEMMA NotElsewhere ==
    ASSUME InOnePlace, NEW from \in Places, NEW to \in Places, from # to,
           NEW X, X \subseteq At(from)
    PROVE  At(to) \cap X = {}
BY DEF InOnePlace

(* A poll takes messages from a queue to a buffer or into the transcript.  *)
LEMMA SteeringTaken ==
    ASSUME TypeOK, MessageInv
    PROVE  LET X == Taken(SteeringMode, steering) IN
           /\ X \in Seq(Msgs) /\ IsInjective(X) /\ Range(X) \in SUBSET Msgs
           /\ Range(X) \subseteq At("steering")
           /\ IsInjective(Left(SteeringMode, steering))
           /\ Range(Left(SteeringMode, steering)) = At("steering") \ Range(X)
<1>1. steering \in Seq(Msgs) /\ IsInjective(steering)
  BY DEF TypeOK, MessageInv, NoRepetition
<1>2. Taken(SteeringMode, steering) \in Seq(Msgs)
  BY <1>1, PollType
<1> QED
  BY <1>1, <1>2, OnceTaken, RangeOfSeq, AtPlaces

LEMMA FollowUpTaken ==
    ASSUME TypeOK, MessageInv
    PROVE  LET X == Taken(FollowUpMode, followUp) IN
           /\ X \in Seq(Msgs) /\ IsInjective(X) /\ Range(X) \in SUBSET Msgs
           /\ Range(X) \subseteq At("followUp")
           /\ IsInjective(Left(FollowUpMode, followUp))
           /\ Range(Left(FollowUpMode, followUp)) = At("followUp") \ Range(X)
<1>1. followUp \in Seq(Msgs) /\ IsInjective(followUp)
  BY DEF TypeOK, MessageInv, NoRepetition
<1>2. Taken(FollowUpMode, followUp) \in Seq(Msgs)
  BY <1>1, PollType
<1> QED
  BY <1>1, <1>2, OnceTaken, RangeOfSeq, AtPlaces

LEMMA SaidMore ==
    ASSUME TypeOK, MessageInv, NEW ms \in Seq(Msgs), IsInjective(ms),
           At("said") \cap Range(ms) = {}, transcript' = transcript \o UserMsgs(ms)
    PROVE  SaidOnce(transcript') /\ At("said")' = At("said") \cup Range(ms)
<1>1. transcript \in Seq(Entries) /\ SaidOnce(transcript)
  BY DEF TypeOK, MessageInv, NoRepetition
<1>2. SaidIn(transcript) \cap Range(ms) = {}
  BY AtPlaces
<1> QED
  BY <1>1, <1>2, SaysMore, AtPlaces, AtPlacesNext

LEMMA MessageKept ==
    ASSUME MessageInv,
           UNCHANGED <<userVars, dropped, pending, polled, steeringAfter>>,
           SaidOnce(transcript) => SaidOnce(transcript'),
           SaidIn(transcript') = SaidIn(transcript)
    PROVE  MessageInv'
<1>1. \A p \in Places : At(p)' = At(p)
  BY DEF Places, At
<1>2. InOnePlace'
  BY <1>1 DEF MessageInv, InOnePlace
<1> QED
  BY <1>2 DEF MessageInv, NoRepetition

LEMMA MessageUser == TypeOK /\ MessageInv /\ User => MessageInv'
<1> SUFFICES ASSUME TypeOK, MessageInv, User PROVE MessageInv'
  OBVIOUS
<1>a. /\ steering \in Seq(Msgs) /\ followUp \in Seq(Msgs) /\ unsent \subseteq Msgs
      /\ Range(steering) \subseteq Msgs /\ Range(followUp) \subseteq Msgs
  BY RangeOfSeq DEF TypeOK
<1>b. InOnePlace /\ NoRepetition
  BY DEF MessageInv
<1>c. /\ "unsent" \in Places /\ "steering" \in Places /\ "followUp" \in Places
      /\ "removed" \in Places /\ "said" \in Places
  BY DEF Places
<1>1. ASSUME NEW m \in Msgs, Steer(m) PROVE MessageInv'
  <2>1. /\ m \in unsent /\ unsent' = unsent \ {m} /\ steering' = Append(steering, m)
        /\ UNCHANGED <<followUp, removed, dropped, pending, polled, steeringAfter,
                       transcript>>
    BY <1>1 DEF Steer
  <2>2. m \notin Range(steering)
    BY <1>b, <1>c, <2>1, NotElsewhere, AtPlaces DEF InOnePlace
  <2>3. IsInjective(steering') /\ Range(steering') = Range(steering) \cup {m}
    BY <1>a, <1>b, <2>1, <2>2, OnceAppended DEF NoRepetition
  <2>4. /\ {m} \subseteq At("unsent") /\ At("unsent")' = At("unsent") \ {m}
        /\ At("steering")' = At("steering") \cup {m}
    BY <2>1, <2>3, AtPlaces, AtPlacesNext
  <2>5. \A p \in Places : p # "unsent" /\ p # "steering" => At(p)' = At(p)
    BY <2>1 DEF Places, At
  <2>6. InOnePlace'
    <3>1. Moves({m}, "unsent", "steering")
      BY <1>b, <1>c, <2>4, <2>5 DEF Moves
    <3> QED
      BY <1>b, <3>1, MovedFrom
  <2> QED
    BY <1>b, <2>1, <2>3, <2>6 DEF MessageInv, NoRepetition
<1>2. ASSUME NEW m \in Msgs, FollowUp(m) PROVE MessageInv'
  <2>1. /\ m \in unsent /\ unsent' = unsent \ {m} /\ followUp' = Append(followUp, m)
        /\ UNCHANGED <<steering, removed, dropped, pending, polled, steeringAfter,
                       transcript>>
    BY <1>2 DEF FollowUp
  <2>2. m \notin Range(followUp)
    BY <1>b, <1>c, <2>1, NotElsewhere, AtPlaces DEF InOnePlace
  <2>3. IsInjective(followUp') /\ Range(followUp') = Range(followUp) \cup {m}
    BY <1>a, <1>b, <2>1, <2>2, OnceAppended DEF NoRepetition
  <2>4. /\ {m} \subseteq At("unsent") /\ At("unsent")' = At("unsent") \ {m}
        /\ At("followUp")' = At("followUp") \cup {m}
    BY <2>1, <2>3, AtPlaces, AtPlacesNext
  <2>5. \A p \in Places : p # "unsent" /\ p # "followUp" => At(p)' = At(p)
    BY <2>1 DEF Places, At
  <2>6. InOnePlace'
    <3>1. Moves({m}, "unsent", "followUp")
      BY <1>b, <1>c, <2>4, <2>5 DEF Moves
    <3> QED
      BY <1>b, <3>1, MovedFrom
  <2> QED
    BY <1>b, <2>1, <2>3, <2>6 DEF MessageInv, NoRepetition
<1>3. CASE PopLastSteer
  <2> DEFINE m == steering[Len(steering)]
  <2>1. /\ steering # <<>> /\ removed' = removed \cup {m}
        /\ steering' = SubSeq(steering, 1, Len(steering) - 1)
        /\ UNCHANGED <<unsent, followUp, dropped, pending, polled, steeringAfter,
                       transcript>>
    BY <1>3 DEF PopLastSteer
  <2>2. /\ IsInjective(steering') /\ Range(steering') = Range(steering) \ {m}
        /\ m \in Range(steering)
    BY <1>a, <1>b, <2>1, OncePopped DEF NoRepetition
  <2> HIDE DEF m
  <2>3. /\ {m} \subseteq At("steering") /\ At("steering")' = At("steering") \ {m}
        /\ At("removed")' = At("removed") \cup {m} /\ {m} \in SUBSET Msgs
    BY <1>a, <2>1, <2>2, AtPlaces, AtPlacesNext
  <2>4. \A p \in Places : p # "steering" /\ p # "removed" => At(p)' = At(p)
    BY <2>1 DEF Places, At
  <2>5. InOnePlace'
    <3>1. Moves({m}, "steering", "removed")
      BY <1>b, <1>c, <2>3, <2>4 DEF Moves
    <3> QED
      BY <1>b, <3>1, MovedFrom
  <2> QED
    BY <1>b, <2>1, <2>2, <2>5 DEF MessageInv, NoRepetition
<1>4. CASE PopLastFollowUp
  <2> DEFINE m == followUp[Len(followUp)]
  <2>1. /\ followUp # <<>> /\ removed' = removed \cup {m}
        /\ followUp' = SubSeq(followUp, 1, Len(followUp) - 1)
        /\ UNCHANGED <<unsent, steering, dropped, pending, polled, steeringAfter,
                       transcript>>
    BY <1>4 DEF PopLastFollowUp
  <2>2. /\ IsInjective(followUp') /\ Range(followUp') = Range(followUp) \ {m}
        /\ m \in Range(followUp)
    BY <1>a, <1>b, <2>1, OncePopped DEF NoRepetition
  <2> HIDE DEF m
  <2>3. /\ {m} \subseteq At("followUp") /\ At("followUp")' = At("followUp") \ {m}
        /\ At("removed")' = At("removed") \cup {m} /\ {m} \in SUBSET Msgs
    BY <1>a, <2>1, <2>2, AtPlaces, AtPlacesNext
  <2>4. \A p \in Places : p # "followUp" /\ p # "removed" => At(p)' = At(p)
    BY <2>1 DEF Places, At
  <2>5. InOnePlace'
    <3>1. Moves({m}, "followUp", "removed")
      BY <1>b, <1>c, <2>3, <2>4 DEF Moves
    <3> QED
      BY <1>b, <3>1, MovedFrom
  <2> QED
    BY <1>b, <2>1, <2>2, <2>5 DEF MessageInv, NoRepetition
<1>5. CASE ClearAllQueues
  <2> DEFINE X == Range(steering) \cup Range(followUp)
  <2>1. /\ removed' = removed \cup {steering[i] : i \in DOMAIN steering}
                              \cup {followUp[i] : i \in DOMAIN followUp}
        /\ steering' = <<>> /\ followUp' = <<>>
        /\ UNCHANGED <<unsent, dropped, pending, polled, steeringAfter, transcript>>
    BY <1>5 DEF ClearAllQueues
  <2>2. removed' = removed \cup X
    BY <2>1 DEF Range
  <2>3. /\ IsInjective(steering') /\ IsInjective(followUp')
        /\ Range(steering') = {} /\ Range(followUp') = {}
    BY <2>1, OnceEmpty
  <2>4. /\ At("removed")' = At("removed") \cup X
        /\ At("steering")' = At("steering") \ X
        /\ At("followUp")' = At("followUp") \ X
    BY <2>2, <2>3, AtPlaces, AtPlacesNext
  <2>5. \A p \in Places : p # "steering" /\ p # "followUp" /\ p # "removed" =>
           At(p)' = At(p)
    BY <2>1 DEF Places, At
  <2>6. \A p \in Places : p # "steering" /\ p # "followUp" => At(p) \cap X = {}
    BY <1>b, <1>c, AtPlaces DEF InOnePlace
  <2> HIDE DEF X
  <2>7. \A p \in Places : At(p)' = IF p = "removed" THEN At(p) \cup X ELSE At(p) \ X
    <3> TAKE p \in Places
    <3>1. CASE p \in {"removed", "steering", "followUp"}
      BY <2>4, <3>1
    <3>2. CASE p \notin {"removed", "steering", "followUp"}
      BY <2>5, <2>6, <3>2
    <3> QED
      BY <3>1, <3>2
  <2>8. X \in SUBSET Msgs
    BY <1>a DEF X
  <2>9. InOnePlace'
    BY <1>b, <1>c, <2>7, <2>8, Moved
  <2> QED
    BY <1>b, <2>1, <2>3, <2>9 DEF MessageInv, NoRepetition
<1>6. CASE Abort
  BY <1>6, MessageKept DEF Abort
<1>7. ASSUME NEW m \in Msgs, Prompt(m) PROVE MessageInv'
  <2>1. /\ m \in unsent /\ unsent' = unsent \ {m}
        /\ transcript' = transcript \o UserMsgs(<<m>>)
        /\ UNCHANGED <<steering, followUp, removed, dropped, pending, polled,
                       steeringAfter>>
    BY <1>7 DEF Prompt, StartRun
  <2>a. <<m>> \in Seq(Msgs)
    OBVIOUS
  <2>2. PICK ms \in Seq(Msgs) : ms = <<m>>
    BY <2>a, Zenon
  <2>3. IsInjective(ms) /\ Range(ms) = {m}
    BY <2>2, OnceSingle
  <2>4. At("said") \cap {m} = {}
    BY <1>b, <1>c, <2>1, NotElsewhere, AtPlaces DEF InOnePlace
  <2>5. SaidOnce(transcript') /\ At("said")' = At("said") \cup {m}
    BY <2>1, <2>2, <2>3, <2>4, SaidMore
  <2>6. {m} \subseteq At("unsent") /\ At("unsent")' = At("unsent") \ {m}
    BY <2>1, AtPlaces, AtPlacesNext
  <2>7. \A p \in Places : p # "unsent" /\ p # "said" => At(p)' = At(p)
    BY <2>1 DEF Places, At
  <2>8. InOnePlace'
    <3>1. Moves({m}, "unsent", "said")
      BY <1>b, <1>c, <2>5, <2>6, <2>7 DEF Moves
    <3> QED
      BY <1>b, <3>1, MovedFrom
  <2> QED
    BY <1>b, <2>1, <2>5, <2>8 DEF MessageInv, NoRepetition
<1>8. CASE Continue
  <2>1. UNCHANGED <<unsent, removed, dropped, pending, polled, steeringAfter>>
    BY <1>8 DEF Continue, StartRun
  <2>2. CASE StartRun(<<>>, FALSE) /\ UNCHANGED <<steering, followUp>>
    <3>1. /\ <<>> \in Seq(Msgs) /\ IsInjective(<<>>) /\ Range(<<>>) = {}
          /\ transcript' = transcript \o UserMsgs(<<>>)
      BY <2>2, OnceEmpty DEF StartRun
    <3>2. SaidOnce(transcript') /\ At("said")' = At("said") \cup {}
      BY <3>1, SaidMore
    <3> QED
      BY <2>1, <2>2, <3>2, MessageKept, AtPlaces, AtPlacesNext
  <2>3. CASE /\ StartRun(Taken(SteeringMode, steering), TRUE)
             /\ steering' = Left(SteeringMode, steering) /\ UNCHANGED followUp
    <3>1. PICK X \in Seq(Msgs) : X = Taken(SteeringMode, steering)
      BY SteeringTaken
    <3>2. /\ IsInjective(X) /\ Range(X) \in SUBSET Msgs
          /\ Range(X) \subseteq At("steering") /\ IsInjective(steering')
          /\ Range(steering') = At("steering") \ Range(X)
      BY <2>3, <3>1, SteeringTaken
    <3>3. At("said") \cap Range(X) = {}
      BY <1>b, <1>c, <3>2, NotElsewhere
    <3>4. SaidOnce(transcript') /\ At("said")' = At("said") \cup Range(X)
      BY <2>3, <3>1, <3>2, <3>3, SaidMore DEF StartRun
    <3>5. At("steering")' = At("steering") \ Range(X)
      BY <3>2, AtPlacesNext
    <3>6. \A p \in Places : p # "steering" /\ p # "said" => At(p)' = At(p)
      BY <2>1, <2>3 DEF Places, At
    <3>7. InOnePlace'
      <4>1. Moves(Range(X), "steering", "said")
        BY <1>b, <1>c, <3>2, <3>4, <3>5, <3>6 DEF Moves
      <4> QED
        BY <1>b, <4>1, MovedFrom
    <3> QED
      BY <1>b, <2>1, <2>3, <3>2, <3>4, <3>7 DEF MessageInv, NoRepetition
  <2>4. CASE /\ StartRun(Taken(FollowUpMode, followUp), FALSE)
             /\ followUp' = Left(FollowUpMode, followUp) /\ UNCHANGED steering
    <3>1. PICK X \in Seq(Msgs) : X = Taken(FollowUpMode, followUp)
      BY FollowUpTaken
    <3>2. /\ IsInjective(X) /\ Range(X) \in SUBSET Msgs
          /\ Range(X) \subseteq At("followUp") /\ IsInjective(followUp')
          /\ Range(followUp') = At("followUp") \ Range(X)
      BY <2>4, <3>1, FollowUpTaken
    <3>3. At("said") \cap Range(X) = {}
      BY <1>b, <1>c, <3>2, NotElsewhere
    <3>4. SaidOnce(transcript') /\ At("said")' = At("said") \cup Range(X)
      BY <2>4, <3>1, <3>2, <3>3, SaidMore DEF StartRun
    <3>5. At("followUp")' = At("followUp") \ Range(X)
      BY <3>2, AtPlacesNext
    <3>6. \A p \in Places : p # "followUp" /\ p # "said" => At(p)' = At(p)
      BY <2>1, <2>4 DEF Places, At
    <3>7. InOnePlace'
      <4>1. Moves(Range(X), "followUp", "said")
        BY <1>b, <1>c, <3>2, <3>4, <3>5, <3>6 DEF Moves
      <4> QED
        BY <1>b, <4>1, MovedFrom
    <3> QED
      BY <1>b, <2>1, <2>4, <3>2, <3>4, <3>7 DEF MessageInv, NoRepetition
  <2> QED
    BY <1>8, <2>2, <2>3, <2>4 DEF Continue
<1> QED
  BY <1>1, <1>2, <1>3, <1>4, <1>5, <1>6, <1>7, <1>8 DEF User

LEMMA MessageModel == TypeOK /\ MessageInv /\ Model => MessageInv'
<1> SUFFICES ASSUME TypeOK, MessageInv, Model PROVE MessageInv'
  OBVIOUS
<1>a. /\ transcript \in Seq(Entries) /\ Len(transcript) \in Nat /\ Len(calls) \in Nat
      /\ UNCHANGED <<userVars, dropped, pending, polled, steeringAfter>>
  BY CallsDomain, LenProperties DEF TypeOK, Model, ToolCallEnd, StreamDone, StreamFails
<1>1. CASE transcript' = transcript
  BY <1>1, <1>a, MessageKept
<1>2. ASSUME NEW n \in Nat, NEW st \in {"stop", "toolUse"}, CloseMessage(n, st)
      PROVE  MessageInv'
  <2>1. Assistant(n, st) \in Entries /\ Assistant(n, st).role = "assistant"
    BY AssistantType DEF Assistant
  <2>2. transcript' = Append(transcript, Assistant(n, st))
    BY <1>2 DEF CloseMessage
  <2>3. /\ transcript' \in Seq(Entries) /\ Len(transcript) <= Len(transcript')
        /\ \A k \in 1..Len(transcript) : transcript'[k] = transcript[k]
        /\ \A k \in (Len(transcript) + 1)..Len(transcript') : transcript'[k].role # "user"
    BY <1>a, <2>1, <2>2, ExtensionByOne
  <2> QED
    BY <1>a, <2>3, SaysNoMore, MessageKept
<1>3. CASE StreamFails
  <2>1. /\ transcript' \in Seq(Entries)
        /\ Len(transcript') = Len(transcript) + 1 + Len(calls)
        /\ \A k \in 1..Len(transcript) : transcript'[k] = transcript[k]
        /\ transcript'[Len(transcript) + 1] = Assistant(Len(calls), StopReason)
        /\ \A i \in 1..Len(calls) :
              transcript'[Len(transcript) + 1 + i] = Result(i, "aborted")
    BY <1>3, FailedMessage
  <2>2. \A k \in (Len(transcript) + 1)..Len(transcript') : transcript'[k].role # "user"
    <3> TAKE k \in (Len(transcript) + 1)..Len(transcript')
    <3>1. CASE k = Len(transcript) + 1
      BY <2>1, <3>1 DEF Assistant
    <3>2. CASE k # Len(transcript) + 1
      <4>1. /\ k - (Len(transcript) + 1) \in 1..Len(calls)
            /\ k = Len(transcript) + 1 + (k - (Len(transcript) + 1))
        BY <1>a, <2>1, <3>2
      <4>2. transcript'[k] = Result(k - (Len(transcript) + 1), "aborted")
        BY <2>1, <4>1
      <4> QED
        BY <4>2 DEF Result
    <3> QED
      BY <3>1, <3>2
  <2>3. Len(transcript) <= Len(transcript')
    BY <1>a, <2>1
  <2> QED
    BY <1>a, <2>1, <2>2, <2>3, SaysNoMore, MessageKept
<1>4. ASSUME NEW kind \in {"parallel", "sequential", "unknown"}, ToolCallEnd(kind)
      PROVE  MessageInv'
  BY <1>1, <1>2, <1>4, <1>a DEF ToolCallEnd
<1>5. CASE StreamDone
  BY <1>2, <1>5, <1>a DEF StreamDone
<1> QED
  BY <1>3, <1>4, <1>5 DEF Model

LEMMA MessageTools == MessageInv /\ Tools => MessageInv'
BY MessageKept DEF Tools, ToolFinishes, OrphanFinishes

(* A poll of a queue into an empty buffer.                                 *)
LEMMA MessagePolls ==
    TypeOK /\ MessageInv /\ InterruptInv /\ (FirstPoll \/ FollowUpPoll) => MessageInv'
<1> SUFFICES ASSUME TypeOK, MessageInv, InterruptInv, FirstPoll \/ FollowUpPoll
             PROVE  MessageInv'
  OBVIOUS
<1>a. InOnePlace /\ NoRepetition /\ pending = <<>> /\ At("pending") = {}
  BY OnceEmpty, AtPlaces DEF MessageInv, InterruptInv, FirstPoll, FollowUpPoll
<1>1. CASE FirstPoll /\ skipPoll
  <2>1. /\ UNCHANGED <<userVars, dropped, polled, steeringAfter, transcript>>
        /\ pending' = pending
    BY <1>1, <1>a DEF FirstPoll
  <2> QED
    BY <2>1, MessageKept
<1>2. CASE FirstPoll /\ ~skipPoll
  <2>1. /\ pending' = Taken(SteeringMode, steering)
        /\ steering' = Left(SteeringMode, steering)
        /\ UNCHANGED <<unsent, followUp, removed, dropped, polled, steeringAfter,
                       transcript>>
    BY <1>2 DEF FirstPoll
  <2>2. /\ IsInjective(pending') /\ Range(pending') \subseteq Msgs
        /\ Range(pending') \subseteq At("steering") /\ IsInjective(steering')
        /\ Range(steering') = At("steering") \ Range(pending')
    BY <2>1, SteeringTaken
  <2>3. \A p \in Places : p # "steering" /\ p # "pending" => At(p)' = At(p)
    BY <2>1 DEF Places, At
  <2>4. Moves(Range(pending'), "steering", "pending")
    BY <1>a, <2>2, <2>3, AtPlacesNext DEF Moves, Places
  <2>5. InOnePlace'
    BY <1>a, <2>4, MovedFrom
  <2> QED
    BY <1>a, <2>1, <2>2, <2>5 DEF MessageInv, NoRepetition
<1>3. CASE FollowUpPoll
  <2>1. /\ pending' = Taken(FollowUpMode, followUp)
        /\ followUp' = Left(FollowUpMode, followUp)
        /\ UNCHANGED <<unsent, steering, removed, dropped, polled, steeringAfter,
                       transcript>>
    BY <1>3 DEF FollowUpPoll
  <2>2. /\ IsInjective(pending') /\ Range(pending') \subseteq Msgs
        /\ Range(pending') \subseteq At("followUp") /\ IsInjective(followUp')
        /\ Range(followUp') = At("followUp") \ Range(pending')
    BY <2>1, FollowUpTaken
  <2>3. \A p \in Places : p # "followUp" /\ p # "pending" => At(p)' = At(p)
    BY <2>1 DEF Places, At
  <2>4. Moves(Range(pending'), "followUp", "pending")
    BY <1>a, <2>2, <2>3, AtPlacesNext DEF Moves, Places
  <2>5. InOnePlace'
    BY <1>a, <2>4, MovedFrom
  <2> QED
    BY <1>a, <2>1, <2>2, <2>5 DEF MessageInv, NoRepetition
<1> QED
  BY <1>1, <1>2, <1>3

(* Polls race with each other through checkSteering: the check that is in  *)
(* flight holds what it dequeued, and hands it on when it returns.         *)
LEMMA MessageBatch ==
    ASSUME TypeOK, MessageInv, InterruptInv,
           CheckReturns \/ SettleBatch \/ \E i \in 1..MaxCalls : EmitResult(i)
    PROVE  MessageInv'
<1>a. /\ InOnePlace /\ NoRepetition
      /\ transcript \in Seq(Entries) /\ Len(transcript) \in Nat
      /\ Len(calls) \in Nat /\ DOMAIN calls = 1..Len(calls)
  BY CallsDomain, LenProperties DEF TypeOK, MessageInv
<1>1. ASSUME NEW i \in 1..MaxCalls, EmitResult(i) PROVE MessageInv'
  <2> DEFINE out == Emitted(calls[i])
  <2>1. /\ i \in DOMAIN calls /\ transcript' = Append(transcript, Result(i, out))
        /\ UNCHANGED <<unsent, followUp, removed, dropped, pending, steeringAfter>>
    BY <1>1 DEF EmitResult
  <2>2. Result(i, out) \in Entries /\ Result(i, out).role = "toolResult"
    <3>1. Result(i, out) \in Entries
      BY <1>a, <2>1, EmittedType, ResultType DEF Outcomes
    <3> QED
      BY <3>1 DEF Result
  <2> HIDE DEF out
  <2>3. /\ transcript' \in Seq(Entries) /\ Len(transcript) <= Len(transcript')
        /\ \A k \in 1..Len(transcript) : transcript'[k] = transcript[k]
        /\ \A k \in (Len(transcript) + 1)..Len(transcript') : transcript'[k].role # "user"
    BY <1>a, <2>1, <2>2, ExtensionByOne
  <2>4. /\ SaidIn(transcript') = SaidIn(transcript)
        /\ SaidOnce(transcript) => SaidOnce(transcript')
    BY <1>a, <2>3, SaysNoMore
  <2>5. CASE UNCHANGED <<polled, steering>>
    BY <2>1, <2>4, <2>5, MessageKept
  <2>6. CASE /\ OpensPoll
             /\ polled' = Taken(SteeringMode, steering)
             /\ steering' = Left(SteeringMode, steering)
    <3>1. polled = <<>> /\ At("polled") = {}
      BY <2>6, OnceEmpty, AtPlaces DEF OpensPoll, InterruptInv
    <3>2. /\ IsInjective(polled') /\ Range(polled') \subseteq Msgs
          /\ Range(polled') \subseteq At("steering") /\ IsInjective(steering')
          /\ Range(steering') = At("steering") \ Range(polled')
      BY <2>6, SteeringTaken
    <3>3. \A p \in Places : p # "steering" /\ p # "polled" => At(p)' = At(p)
      BY <2>1, <2>4 DEF Places, At
    <3>4. Moves(Range(polled'), "steering", "polled")
      BY <3>1, <3>2, <3>3, AtPlacesNext DEF Moves, Places
    <3>5. InOnePlace'
      BY <1>a, <3>4, MovedFrom
    <3> QED
      BY <1>a, <2>1, <2>4, <3>2, <3>5 DEF MessageInv, NoRepetition
  <2>7. \/ UNCHANGED <<polled, steering>>
        \/ /\ OpensPoll
           /\ polled' = Taken(SteeringMode, steering)
           /\ steering' = Left(SteeringMode, steering)
    BY <1>1 DEF EmitResult
  <2> QED
    BY <2>5, <2>6, <2>7
<1>2. CASE CheckReturns
  <2>1. /\ polled' = <<>> /\ steeringAfter' = polled /\ steeringAfter = <<>>
        /\ UNCHANGED <<userVars, dropped, pending, transcript>>
    BY <1>2 DEF CheckReturns, InterruptInv
  <2>2. At("interrupting") = {} /\ At("polled")' = {} /\ IsInjective(polled')
    BY <2>1, OnceEmpty, AtPlaces, AtPlacesNext
  <2>3. \A p \in Places : p # "polled" /\ p # "interrupting" => At(p)' = At(p)
    BY <2>1 DEF Places, At
  <2>4. Range(polled) \subseteq Msgs
    BY RangeOfSeq DEF TypeOK
  <2>5. Moves(Range(polled), "polled", "interrupting")
    BY <2>1, <2>2, <2>3, <2>4, AtPlaces, AtPlacesNext DEF Moves, Places
  <2>6. InOnePlace'
    BY <1>a, <2>5, MovedFrom
  <2> QED
    BY <1>a, <2>1, <2>2, <2>6 DEF MessageInv, NoRepetition
<1>3. CASE SettleBatch
  <2>1. PICK n \in Nat : \E rest \in [1..n -> 1..Len(calls)] :
           /\ transcript' \in Seq(Entries)
           /\ Len(transcript') = Len(transcript) + n
           /\ \A k \in 1..Len(transcript) : transcript'[k] = transcript[k]
           /\ \A k \in 1..n :
                 transcript'[Len(transcript) + k] = Result(rest[k], "skipped")
    BY <1>3, SettledBatch
  <2>2. \A k \in (Len(transcript) + 1)..Len(transcript') : transcript'[k].role # "user"
    <3> TAKE k \in (Len(transcript) + 1)..Len(transcript')
    <3>1. k - Len(transcript) \in 1..n /\ k = Len(transcript) + (k - Len(transcript))
      BY <1>a, <2>1
    <3>2. \E j \in 1..Len(calls) : transcript'[k] = Result(j, "skipped")
      BY <2>1, <3>1
    <3> QED
      BY <3>2 DEF Result
  <2>3. Len(transcript) <= Len(transcript')
    BY <1>a, <2>1
  <2>4. /\ SaidIn(transcript') = SaidIn(transcript)
        /\ SaidOnce(transcript) => SaidOnce(transcript')
    BY <1>a, <2>1, <2>2, <2>3, SaysNoMore
  <2>5. UNCHANGED <<userVars, pending, polled>>
    BY <1>3 DEF SettleBatch
  <2>6. CASE UNCHANGED <<dropped, steeringAfter>>
    BY <2>4, <2>5, <2>6, MessageKept
  <2>7. CASE /\ dropped' = dropped \cup {steeringAfter[i] : i \in DOMAIN steeringAfter}
             /\ steeringAfter' = <<>>
    <3>1. dropped' = dropped \cup Range(steeringAfter)
      BY <2>7 DEF Range
    <3>2. Range(steeringAfter) \subseteq Msgs
      BY RangeOfSeq DEF TypeOK
    <3>3. At("interrupting")' = {} /\ IsInjective(steeringAfter')
      BY <2>7, OnceEmpty, AtPlacesNext
    <3>4. \A p \in Places : p # "interrupting" /\ p # "dropped" => At(p)' = At(p)
      BY <2>4, <2>5 DEF Places, At
    <3>5. Moves(Range(steeringAfter), "interrupting", "dropped")
      BY <3>1, <3>2, <3>3, <3>4, AtPlaces, AtPlacesNext DEF Moves, Places
    <3>6. InOnePlace'
      BY <1>a, <3>5, MovedFrom
    <3> QED
      BY <1>a, <2>4, <2>5, <3>3, <3>6 DEF MessageInv, NoRepetition
  <2> QED
    BY <1>3, <2>6, <2>7 DEF SettleBatch
<1> QED
  BY <1>1, <1>2, <1>3

LEMMA MessageLoop == TypeOK /\ MessageInv /\ InterruptInv /\ Loop => MessageInv'
<1> SUFFICES ASSUME TypeOK, MessageInv, InterruptInv, Loop PROVE MessageInv'
  OBVIOUS
<1>a. InOnePlace /\ NoRepetition
  BY DEF MessageInv
<1>1. CASE FirstPoll \/ FollowUpPoll
  BY <1>1, MessagePolls
<1>2. CASE StartTurn
  <2>1. /\ transcript' = transcript \o UserMsgs(pending) /\ pending' = <<>>
        /\ UNCHANGED <<userVars, dropped, polled, steeringAfter>>
    BY <1>2 DEF StartTurn
  <2>2. pending \in Seq(Msgs) /\ Range(pending) \subseteq Msgs /\ IsInjective(pending)
    BY <1>a, RangeOfSeq DEF TypeOK, NoRepetition
  <2>3. At("said") \cap Range(pending) = {}
    BY <1>a, AtPlaces DEF InOnePlace, Places
  <2>4. SaidOnce(transcript') /\ At("said")' = At("said") \cup Range(pending)
    BY <2>1, <2>2, <2>3, SaidMore
  <2>5. At("pending")' = {} /\ IsInjective(pending')
    BY <2>1, OnceEmpty, AtPlacesNext
  <2>6. \A p \in Places : p # "pending" /\ p # "said" => At(p)' = At(p)
    BY <2>1 DEF Places, At
  <2>7. Moves(Range(pending), "pending", "said")
    BY <2>2, <2>4, <2>5, <2>6, AtPlaces DEF Moves, Places
  <2>8. InOnePlace'
    BY <1>a, <2>7, MovedFrom
  <2> QED
    BY <1>a, <2>1, <2>4, <2>5, <2>8 DEF MessageInv, NoRepetition
<1>3. CASE OpenStream
  <2>1. steeringAfter = <<>>
    BY <1>3 DEF OpenStream, InterruptInv
  <2>2. UNCHANGED <<userVars, dropped, pending, polled, steeringAfter, transcript>>
    BY <1>3, <2>1 DEF OpenStream
  <2> QED
    BY <2>2, MessageKept
<1>4. CASE RequestFails \/ ResolveThrows \/ (\E found : ResolveTools(found))
           \/ (\E i \in 1..MaxCalls : StartNext(i))
  <2>1. UNCHANGED <<userVars, dropped, pending, polled, steeringAfter, transcript>>
    BY <1>4 DEF RequestFails, ResolveThrows, ResolveTools, StartNext
  <2> QED
    BY <2>1, MessageKept
<1>5. CASE CheckReturns \/ SettleBatch \/ \E i \in 1..MaxCalls : EmitResult(i)
  BY <1>5, MessageBatch
<1>6. CASE TurnEnd
  <2>1. /\ pending = <<>> /\ At("pending") = {} /\ steeringAfter' = <<>>
        /\ At("interrupting")' = {} /\ IsInjective(steeringAfter')
        /\ UNCHANGED <<unsent, followUp, removed, dropped, polled, transcript>>
    BY <1>6, OnceEmpty, AtPlaces, AtPlacesNext DEF TurnEnd, InterruptInv
  <2>2. CASE steeringAfter # <<>>
    <3>1. pending' = steeringAfter /\ steering' = steering
      BY <1>6, <2>2 DEF TurnEnd, Interrupting
    <3>2. Range(steeringAfter) \subseteq Msgs
      BY RangeOfSeq DEF TypeOK
    <3>3. \A p \in Places : p # "interrupting" /\ p # "pending" => At(p)' = At(p)
      BY <2>1, <3>1 DEF Places, At
    <3>4. Moves(Range(steeringAfter), "interrupting", "pending")
      BY <2>1, <3>1, <3>2, <3>3, AtPlaces, AtPlacesNext DEF Moves, Places
    <3>5. InOnePlace'
      BY <1>a, <3>4, MovedFrom
    <3> QED
      BY <1>a, <2>1, <3>1, <3>5 DEF MessageInv, NoRepetition
  <2>3. CASE steeringAfter = <<>>
    <3>1. /\ pending' = Taken(SteeringMode, steering)
          /\ steering' = Left(SteeringMode, steering)
      BY <1>6, <2>3 DEF TurnEnd, Interrupting
    <3>2. /\ IsInjective(pending') /\ Range(pending') \subseteq Msgs
          /\ Range(pending') \subseteq At("steering") /\ IsInjective(steering')
          /\ Range(steering') = At("steering") \ Range(pending')
      BY <3>1, SteeringTaken
    <3>3. \A p \in Places : p # "steering" /\ p # "pending" => At(p)' = At(p)
      BY <2>1, <2>3 DEF Places, At
    <3>4. Moves(Range(pending'), "steering", "pending")
      BY <2>1, <3>2, <3>3, AtPlacesNext DEF Moves, Places
    <3>5. InOnePlace'
      BY <1>a, <3>4, MovedFrom
    <3> QED
      BY <1>a, <2>1, <3>2, <3>5 DEF MessageInv, NoRepetition
  <2> QED
    BY <2>2, <2>3
<1> QED
  BY <1>1, <1>2, <1>3, <1>4, <1>5, <1>6 DEF Loop

LEMMA MessageInvHolds == Spec => []MessageInv
<1>1. Init => MessageInv
  <2> SUFFICES ASSUME Init PROVE MessageInv
    OBVIOUS
  <2>1. /\ unsent = Msgs /\ removed = {} /\ dropped = {}
        /\ steering = <<>> /\ followUp = <<>> /\ pending = <<>> /\ polled = <<>>
        /\ steeringAfter = <<>> /\ transcript = <<>> /\ 1..Len(transcript) = {}
    BY DEF Init
  <2>2. SaidIn(transcript) = {} /\ SaidOnce(transcript)
    BY <2>1 DEF SaidIn, SaidOnce
  <2>3. NoRepetition
    BY <2>1, <2>2, OnceEmpty DEF NoRepetition
  <2>4. \A p \in Places : At(p) = IF p = "unsent" THEN Msgs ELSE {}
    BY <2>1, <2>2, OnceEmpty DEF Places, At
  <2>5. "unsent" \in Places
    BY DEF Places
  <2>6. InOnePlace
    BY <2>4, <2>5 DEF InOnePlace
  <2> QED
    BY <2>3, <2>6 DEF MessageInv
<1>2. TypeOK /\ InterruptInv /\ MessageInv /\ [Next]_vars => MessageInv'
  <2> SUFFICES ASSUME TypeOK, InterruptInv, MessageInv, [Next]_vars PROVE MessageInv'
    OBVIOUS
  <2>1. CASE UNCHANGED vars
    BY <2>1, MessageKept DEF vars
  <2> QED
    BY <2>1, MessageUser, MessageModel, MessageTools, MessageLoop DEF Next
<1> QED
  BY <1>1, <1>2, ResultInvHolds, PTL DEF Spec

(* The queues and buffers, read as one sequence, repeat no message.        *)
LEMMA QueuedOnce ==
    ASSUME TypeOK, MessageInv
    PROVE  /\ IsInjective(Queued)
           /\ Range(Queued) = At("steering") \cup At("followUp") \cup At("pending")
                              \cup At("polled") \cup At("interrupting")
<1>1. /\ steering \in Seq(Msgs) /\ followUp \in Seq(Msgs) /\ pending \in Seq(Msgs)
      /\ polled \in Seq(Msgs) /\ steeringAfter \in Seq(Msgs)
  BY DEF TypeOK
<1>2. /\ IsInjective(steering) /\ IsInjective(followUp) /\ IsInjective(pending)
      /\ IsInjective(polled) /\ IsInjective(steeringAfter)
  BY DEF MessageInv, NoRepetition
<1>3. LET ps == {"steering", "followUp", "pending", "polled", "interrupting"}
      IN  \A p, q \in ps : p # q => At(p) \cap At(q) = {}
  BY DEF MessageInv, InOnePlace, Places
<1>4. /\ Range(steering) \cap Range(followUp) = {}
      /\ Range(steering) \cap Range(pending) = {}
      /\ Range(steering) \cap Range(polled) = {}
      /\ Range(steering) \cap Range(steeringAfter) = {}
      /\ Range(followUp) \cap Range(pending) = {}
      /\ Range(followUp) \cap Range(polled) = {}
      /\ Range(followUp) \cap Range(steeringAfter) = {}
      /\ Range(pending) \cap Range(polled) = {}
      /\ Range(pending) \cap Range(steeringAfter) = {}
      /\ Range(polled) \cap Range(steeringAfter) = {}
  BY <1>3, AtPlaces
<1>5. PICK s \in Seq(Msgs) : s = pending \o polled
  BY <1>1, JoinElements
<1>6. IsInjective(s) /\ Range(s) = Range(pending) \cup Range(polled)
  BY <1>1, <1>2, <1>4, <1>5, OnceJoined
<1>7. PICK t \in Seq(Msgs) : t = s \o steeringAfter
  BY <1>1, JoinElements
<1>8. IsInjective(t) /\ Range(t) = Range(s) \cup Range(steeringAfter)
  <2>1. Range(s) \cap Range(steeringAfter) = {}
    BY <1>4, <1>6
  <2> QED
    BY <1>1, <1>2, <1>6, <1>7, <2>1, OnceJoined
<1>9. PICK q \in Seq(Msgs) : q = steering \o followUp
  BY <1>1, JoinElements
<1>10. IsInjective(q) /\ Range(q) = Range(steering) \cup Range(followUp)
  BY <1>1, <1>2, <1>4, <1>9, OnceJoined
<1>11. Range(q) \cap Range(t) = {}
  BY <1>4, <1>6, <1>8, <1>10
<1>12. IsInjective(q \o t) /\ Range(q \o t) = Range(q) \cup Range(t)
  BY <1>8, <1>10, <1>11, OnceJoined
<1>13. Queued = q \o t
  BY <1>5, <1>7, <1>9 DEF Queued, InTransit
<1>14. Range(q) \cup Range(t) = At("steering") \cup At("followUp") \cup At("pending")
                                \cup At("polled") \cup At("interrupting")
  BY <1>6, <1>8, <1>10, AtPlaces
<1> QED
  BY <1>12, <1>13, <1>14

(* No user message is lost or said twice, in whatever order the queues are *)
(* polled: by the next turn, by the steering checks of several tools, by   *)
(* the end of a turn and by continue(), while the user steers, takes back  *)
(* and clears (agent-loop.ts 680-699, 342-347).                            *)
THEOREM NoMessageLostOrRepeated == Spec => []EachMessageOnce
<1>1. TypeOK /\ MessageInv => EachMessageOnce
  <2> SUFFICES ASSUME TypeOK, MessageInv PROVE EachMessageOnce
    OBVIOUS
  <2> DEFINE queued == {Queued[i] : i \in DOMAIN Queued}
             said   == {transcript[k].msg : k \in Said}
             gone   == removed \cup dropped
  <2>1. DOMAIN transcript = 1..Len(transcript)
    BY LenProperties DEF TypeOK
  <2>2. said = At("said") /\ (\A i, j \in Said : transcript[i].msg = transcript[j].msg => i = j)
    BY <2>1, AtPlaces
       DEF MessageInv, NoRepetition, SaidOnce, SaidIn, Said, IsUser
  <2>3. /\ \A i, j \in DOMAIN Queued : Queued[i] = Queued[j] => i = j
        /\ queued = At("steering") \cup At("followUp") \cup At("pending")
                    \cup At("polled") \cup At("interrupting")
    BY QueuedOnce DEF IsInjective, Range
  <2>4. gone = At("removed") \cup At("dropped") /\ unsent = At("unsent")
    BY AtPlaces
  <2>5. \A p, q \in Places : p # q => At(p) \cap At(q) = {}
    BY DEF MessageInv, InOnePlace
  <2>6. /\ At("removed") = removed /\ At("dropped") = dropped
        /\ removed \cap dropped = {}
    BY <2>5, AtPlaces DEF Places
  <2>7. \A p \in Places : At(p) \subseteq Msgs
    <3>1. /\ Range(steering) \subseteq Msgs /\ Range(followUp) \subseteq Msgs
          /\ Range(pending) \subseteq Msgs /\ Range(polled) \subseteq Msgs
          /\ Range(steeringAfter) \subseteq Msgs
      BY RangeOfSeq DEF TypeOK
    <3>2. SaidIn(transcript) \subseteq Msgs
      <4>1. transcript \in Seq(Entries)
        BY DEF TypeOK
      <4> QED
        BY <4>1, EntryFields DEF SaidIn
    <3> QED
      BY <3>1, <3>2 DEF TypeOK, Places, At
  <2> HIDE DEF queued, said, gone
  <2>8. Msgs = unsent \cup gone \cup queued \cup said
    <3>1. unsent \cup gone \cup queued \cup said \subseteq Msgs
      BY <2>2, <2>3, <2>4, <2>7 DEF Places
    <3>2. ASSUME NEW m \in Msgs PROVE m \in unsent \cup gone \cup queued \cup said
      <4>1. PICK p \in Places : m \in At(p)
        BY DEF MessageInv, InOnePlace
      <4> QED
        BY <4>1, <2>2, <2>3, <2>4 DEF Places
    <3> QED
      BY <3>1, <3>2
  <2>9. unsent \cap (gone \cup queued \cup said) = {}
    BY <2>2, <2>3, <2>4, <2>5 DEF Places
  <2>10. gone \cap (queued \cup said) = {}
    BY <2>2, <2>3, <2>4, <2>5 DEF Places
  <2>11. queued \cap said = {}
    BY <2>2, <2>3, <2>5 DEF Places
  <2> QED
    BY <2>2, <2>3, <2>6, <2>8, <2>9, <2>10, <2>11
       DEF EachMessageOnce, queued, said, gone
<1> QED
  BY <1>1, TypeCorrect, MessageInvHolds, PTL
=============================================================================
