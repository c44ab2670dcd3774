---------------------- MODULE LiveCandleProducerProofs ----------------------
(***************************************************************************)
(* Proofs about LiveCandleProducer: for any symbols, any deadline, any     *)
(* queue and any number of attempts, in every order in which the network,  *)
(* the reader, the consumer, the engine and the trader can act.            *)
(***************************************************************************)
EXTENDS LiveCandleProducer, WellFoundedInduction, TLAPS

(* A reconnection by this class is owed, or under way, only while the      *)
(* library's read loop is over; and the library is thought to be           *)
(* recovering only while its connection is down.                           *)
SocketInv ==
  /\ due => link = "over" /\ reader # "reconnecting"
  /\ reader = "reconnecting" => link = "over" /\ ~libraryRecovering
  /\ libraryRecovering => link # "up"

(* The end marker is the last thing ever queued: the reader that queued it *)
(* is done.                                                                *)
QueueInv == \A i \in 1..Len(events) : events[i] = End => i = Len(events) /\ reader = "done"

(* After a fatal end nothing moves any more, so that the queue and the     *)
(* silences are those it was judged by.                                    *)
FatalInv ==
  /\ fatal # "no" => consumer = "ended" /\ reader = "done" /\ ~running
  /\ FailureComesLast
  /\ StallIsReal

(* The wait was set by the longest silence, and arrivals only shorten it.  *)
WaitInv == consumer = "waiting" => \A s \in Symbols : silence[s] + timer <= Deadline

(* Some symbol's silence, as the guard counts it, lags behind the time the *)
(* consumer really waited by at most the one extension.                    *)
LagInv == \E s \in Symbols : quiet[s] <= silence[s] + (IF extended THEN Deadline ELSE 0)

(***************************************************************************)
(* The inductive invariant.                                                *)
(***************************************************************************)
ProducerInv == TypeOK /\ SocketInv /\ QueueInv /\ FatalInv /\ WaitInv /\ LagInv

-----------------------------------------------------------------------------
LEMMA Constants ==
  /\ Deadline \in Nat /\ Deadline > 0 /\ Symbols # {} /\ End \notin Symbols
  /\ MaxAttempts \in Nat /\ StableAfter \in Nat
BY DeadlineAssumption, SymbolAssumption, AttemptAssumption

(***************************************************************************)
(* A bounded non-empty set of numbers has a greatest one, so that Max is   *)
(* one of them and none of them is greater.                                *)
(***************************************************************************)
LEMMA MaxOfBounded ==
  ASSUME NEW n \in Nat, NEW S \in SUBSET (0..n), S # {}
  PROVE  Max(S) \in S /\ \A y \in S : y <= Max(S)
<1> DEFINE Below == {n - y : y \in S}
<1>0. \A y \in S : y \in Nat /\ n - y \in Nat
  OBVIOUS
<1>1. Below \subseteq Nat /\ Below # {}
  BY <1>0
<1>2. PICK x \in Below : \A y \in Below : ~(<<y, x>> \in OpToRel(<, Nat))
  <2> HIDE DEF Below
  <2> QED BY <1>1, WFMin, NatLessThanWellFounded
<1>3. \A y \in Below : x <= y
  <2> SUFFICES ASSUME NEW y \in Below, ~(x <= y) PROVE FALSE
    OBVIOUS
  <2>1. x \in Nat /\ y \in Nat /\ y < x
    BY <1>1
  <2>2. <<y, x>> \in OpToRel(<, Nat)
    BY <2>1 DEF OpToRel
  <2> QED
    BY <1>2, <2>2
<1>4. PICK m \in S : x = n - m
  OBVIOUS
<1>5. \A y \in S : m >= y
  <2> SUFFICES ASSUME NEW y \in S PROVE m >= y
    OBVIOUS
  <2>1. n - y \in Below
    OBVIOUS
  <2>2. n - m <= n - y
    BY <1>3, <1>4, <2>1
  <2>3. m \in Nat /\ y \in Nat
    BY <1>0
  <2> QED
    BY <2>2, <2>3
<1>6. \E z \in S : \A y \in S : z >= y
  BY <1>5
<1>7. Max(S) \in S /\ \A y \in S : Max(S) >= y
  <2> HIDE DEF Below
  <2> QED BY <1>6 DEF Max
<1> QED
  BY <1>7

(***************************************************************************)
(* The longest silence is the silence of some symbol.                      *)
(***************************************************************************)
LEMMA LongestSilence ==
  ASSUME silence \in [Symbols -> 0..Deadline]
  PROVE  /\ Longest \in 0..Deadline
         /\ \E s \in Symbols : silence[s] = Longest
         /\ \A s \in Symbols : silence[s] <= Longest
<1> DEFINE S == {silence[s] : s \in Symbols}
<1>1. S \in SUBSET (0..Deadline) /\ S # {}
  BY Constants
<1>2. Max(S) \in S /\ \A y \in S : y <= Max(S)
  <2> HIDE DEF S
  <2> QED BY <1>1, MaxOfBounded, Constants
<1> QED
  BY <1>1, <1>2 DEF Longest

-----------------------------------------------------------------------------
(* The queue. *)

(***************************************************************************)
(* While the reader is at work the end marker is not in the queue.         *)
(***************************************************************************)
LEMMA NoEndYet ==
  ASSUME QueueInv, reader # "done"
  PROVE  \A i \in 1..Len(events) : events[i] # End
BY DEF QueueInv

(***************************************************************************)
(* Whoever ends the reader queues at most one end marker, the last item.   *)
(***************************************************************************)
LEMMA StoppedQueue ==
  ASSUME TypeOK, QueueInv, StopReader
  PROVE  /\ events' \in Seq(Symbols \cup {End})
         /\ QueueInv'
         /\ reader' = "done"
         /\ reader = "done" => events' = events
<1>0. events \in Seq(Symbols \cup {End}) /\ reader' = "done"
  BY DEF TypeOK, StopReader
<1>1. CASE events' = events
  BY <1>0, <1>1 DEF QueueInv
<1>2. CASE reader \notin {"created", "done"} /\ events' = Append(events, End)
  <2>1. \A i \in 1..Len(events) : events[i] # End
    BY <1>2, NoEndYet
  <2>2. /\ events' \in Seq(Symbols \cup {End}) /\ Len(events') = Len(events) + 1
        /\ \A i \in 1..Len(events) : events'[i] = events[i]
    BY <1>0, <1>2
  <2>3. \A i \in 1..Len(events') : i \in 1..Len(events) \/ i = Len(events')
    BY <1>0, <2>2
  <2>4. QueueInv'
    BY <1>0, <2>1, <2>2, <2>3 DEF QueueInv
  <2> QED
    BY <1>0, <1>2, <2>2, <2>4
<1> QED
  BY <1>1, <1>2 DEF StopReader

(***************************************************************************)
(* Taking the head keeps the order; when the head is the end marker, it    *)
(* was the only item.                                                      *)
(***************************************************************************)
LEMMA TakenQueue ==
  ASSUME TypeOK, QueueInv, events # <<>>, events' = Tail(events),
         reader' \in {reader, "done"}
  PROVE  /\ events' \in Seq(Symbols \cup {End})
         /\ QueueInv'
         /\ Head(events) = End => events' = <<>>
<1>0. events \in Seq(Symbols \cup {End}) /\ Len(events) \in Nat /\ Len(events) > 0
  BY DEF TypeOK
<1>1. /\ events' \in Seq(Symbols \cup {End}) /\ Len(events') = Len(events) - 1
      /\ \A i \in 1..Len(events') : events'[i] = events[i + 1]
  BY <1>0
<1>2. QueueInv'
  <2> SUFFICES ASSUME NEW i \in 1..Len(events'), events'[i] = End
               PROVE  i = Len(events') /\ reader' = "done"
    BY DEF QueueInv
  <2>1. i + 1 \in 1..Len(events) /\ events[i + 1] = End
    BY <1>0, <1>1
  <2>2. i + 1 = Len(events) /\ reader = "done"
    BY <2>1 DEF QueueInv
  <2>3. i = Len(events')
    <3>1. Len(events') = Len(events) - 1
      BY <1>1
    <3> QED
      BY <1>0, <2>2, <3>1
  <2> QED
    BY <2>2, <2>3
<1>3. ASSUME Head(events) = End PROVE events' = <<>>
  <2>1. 1 \in 1..Len(events) /\ events[1] = End
    BY <1>0, <1>3
  <2>2. Len(events) = 1
    BY <2>1 DEF QueueInv
  <2> QED
    BY <1>0, <1>1, <2>2
<1> QED
  BY <1>1, <1>2, <1>3

-----------------------------------------------------------------------------
LEMMA InitProducer == Init => ProducerInv
<1> SUFFICES ASSUME Init PROVE ProducerInv
  OBVIOUS
<1>1. TypeOK
  <2>1. /\ 0 \in 0..MaxAttempts /\ 0 \in 0..StableAfter + 1
        /\ 0 \in 0..Deadline /\ 0 \in 0..2 * Deadline + 1
    BY Constants
  <2>2. SocketTypeOK
    BY <2>1 DEF Init, SocketInit, SocketTypeOK
  <2>3. /\ silence \in [Symbols -> 0..Deadline] /\ timer \in 0..Deadline
        /\ quiet \in [Symbols -> 0..2 * Deadline + 1]
    BY <2>1 DEF Init
  <2>4. events \in Seq(Symbols \cup {End})
    BY DEF Init
  <2> QED
    BY <2>2, <2>3, <2>4 DEF Init, TypeOK
<1>2. SocketInv
  BY DEF Init, SocketInit, SocketInv
<1>3. QueueInv
  BY DEF Init, QueueInv
<1>4. FatalInv
  BY DEF Init, FatalInv, FailureComesLast, StallIsReal
<1>5. WaitInv
  BY DEF Init, WaitInv
<1>6. LagInv
  <2>1. PICK s \in Symbols : TRUE
    BY Constants
  <2>2. quiet[s] <= silence[s] + (IF extended THEN Deadline ELSE 0)
    BY DEF Init
  <2> QED
    BY <2>2 DEF LagInv
<1> QED
  BY <1>1, <1>2, <1>3, <1>4, <1>5, <1>6 DEF ProducerInv

(***************************************************************************)
(* While the stream has not failed nothing of FatalInv is to be shown, and *)
(* a reader at work has seen no failure.                                   *)
(***************************************************************************)
LEMMA NotFatal == fatal = "no" => FatalInv
BY DEF FatalInv, FailureComesLast, StallIsReal

LEMMA AtWork ==
  ASSUME ProducerInv, \/ reader # "done" \/ running \/ consumer # "ended"
  PROVE  fatal = "no"
BY DEF ProducerInv, FatalInv

-----------------------------------------------------------------------------
(* The reader. *)

(***************************************************************************)
(* A recovery that is noted keeps the wait within the deadline; when it    *)
(* restarts the deadline, the extension makes up for the silence it        *)
(* forgets.                                                                *)
(***************************************************************************)
LEMMA RecoveryNoted ==
  ASSUME TypeOK, WaitInv, LagInv, NEW anew \in BOOLEAN, NoteRecovery(anew),
         UNCHANGED <<consumer, timer, quiet>>
  PROVE  /\ recovered' \in BOOLEAN /\ extended' \in BOOLEAN
         /\ silence' \in [Symbols -> 0..Deadline]
         /\ WaitInv' /\ LagInv'
<1>1. /\ extended \in BOOLEAN /\ silence \in [Symbols -> 0..Deadline]
      /\ timer \in 0..Deadline /\ quiet \in [Symbols -> 0..2 * Deadline + 1]
  BY DEF TypeOK
<1>2. CASE anew /\ ~extended
  <2>1. silence' = [s \in Symbols |-> 0] /\ extended' = TRUE /\ recovered' = FALSE
    BY <1>2 DEF NoteRecovery, Extends
  <2>2. WaitInv'
    BY <1>1, <2>1, Constants DEF WaitInv
  <2>3. PICK s \in Symbols : quiet[s] <= silence[s]
    BY <1>1, <1>2 DEF LagInv
  <2>4. quiet'[s] <= silence'[s] + Deadline
    BY <1>1, <2>1, <2>3, Constants
  <2>5. LagInv'
    BY <2>1, <2>4 DEF LagInv
  <2>6. silence' \in [Symbols -> 0..Deadline]
    BY <2>1, Constants
  <2> QED
    BY <2>1, <2>2, <2>5, <2>6
<1>3. CASE ~(anew /\ ~extended)
  <2>1. silence' = silence /\ extended' = extended /\ recovered' = FALSE
    BY <1>1, <1>3 DEF NoteRecovery, Extends
  <2> QED
    BY <1>1, <2>1 DEF WaitInv, LagInv
<1> QED
  BY <1>2, <1>3

LEMMA MessageType == SocketTypeOK /\ Message => SocketTypeOK'
<1> SUFFICES ASSUME SocketTypeOK, Message PROVE SocketTypeOK'
  OBVIOUS
<1>1. streak' \in 0..MaxAttempts
  BY Constants DEF Message
<1>2. UNCHANGED <<due, sinceOk>> /\ link' = "up" /\ libraryRecovering' = FALSE
  BY DEF Message
<1> QED
  BY <1>1, <1>2 DEF SocketTypeOK

(***************************************************************************)
(* A closed candle: its symbol has just been heard of.                     *)
(***************************************************************************)
LEMMA ReadClosedKeeps ==
  ASSUME ProducerInv, NEW s \in Symbols, ReadClosed(s)
  PROVE  ProducerInv'
<1>0. TypeOK /\ SocketInv /\ QueueInv /\ WaitInv
  BY DEF ProducerInv
<1>1. /\ reader = "recv" /\ reader' = "recv" /\ link # "over" /\ link' = "up"
      /\ libraryRecovering' = FALSE /\ due' = due /\ events' = Append(events, s)
      /\ extended' = FALSE
      /\ UNCHANGED <<running, fatal, consumer, timer>>
  BY DEF ReadClosed, Message
<1>2. events' \in Seq(Symbols \cup {End}) /\ QueueInv'
  <2>1. events \in Seq(Symbols \cup {End}) /\ s # End
    BY <1>0, Constants DEF TypeOK
  <2>2. \A i \in 1..Len(events) : events[i] # End
    BY <1>0, <1>1, NoEndYet
  <2>3. events' \in Seq(Symbols \cup {End}) /\ Len(events') = Len(events) + 1
    BY <1>1, <2>1
  <2>4. ASSUME NEW i \in 1..Len(events') PROVE events'[i] # End
    <3>1. CASE i = Len(events') BY <1>1, <2>1, <2>3, <3>1
    <3>2. CASE i # Len(events')
      <4>1. i \in 1..Len(events)
        BY <2>1, <2>3, <3>2
      <4> QED
        BY <1>1, <2>1, <2>2, <4>1
    <3> QED
      BY <3>1, <3>2
  <2> QED
    BY <2>3, <2>4 DEF QueueInv
<1>3. /\ silence' \in [Symbols -> 0..Deadline]
      /\ \A x \in Symbols : silence'[x] <= silence[x]
      /\ quiet' \in [Symbols -> 0..2 * Deadline + 1] /\ quiet'[s] = 0
  BY <1>0, Constants DEF ReadClosed, TypeOK
<1>4. TypeOK'
  <2>1. SocketTypeOK'
    BY <1>0, MessageType DEF ReadClosed, TypeOK
  <2>2. recovered' = FALSE /\ UNCHANGED failed
    BY DEF ReadClosed
  <2>3. /\ running' \in BOOLEAN /\ failed' \in BOOLEAN /\ recovered' \in BOOLEAN
        /\ extended' \in BOOLEAN
    BY <1>0, <1>1, <2>2 DEF TypeOK
  <2>4. /\ fatal' \in {"no", "stall", "recv"} /\ timer' \in 0..Deadline
        /\ reader' \in {"created", "recv", "reporting", "reconnecting", "done"}
        /\ consumer' \in {"loop", "waiting", "holding", "ended"}
    BY <1>0, <1>1 DEF TypeOK
  <2> QED
    BY <1>2, <1>3, <2>1, <2>3, <2>4 DEF TypeOK
<1>5. SocketInv'
  BY <1>0, <1>1 DEF SocketInv
<1>6. FatalInv'
  <2>1. fatal' = "no"
    BY <1>1, AtWork
  <2> QED
    BY <2>1 DEF FatalInv, FailureComesLast, StallIsReal
<1>7. WaitInv'
  <2> SUFFICES ASSUME consumer' = "waiting", NEW x \in Symbols
               PROVE  silence'[x] + timer' <= Deadline
    BY DEF WaitInv
  <2>1. silence[x] + timer <= Deadline /\ silence'[x] <= silence[x]
    BY <1>0, <1>1, <1>3 DEF WaitInv
  <2>2. silence[x] \in Nat /\ silence'[x] \in Nat /\ timer \in Nat /\ timer' = timer
    BY <1>0, <1>1, <1>3, Constants DEF TypeOK
  <2> QED
    BY <2>1, <2>2, Constants
<1>8. LagInv'
  <2>1. quiet'[s] <= silence'[s] + 0
    BY <1>3
  <2> QED
    BY <1>1, <2>1 DEF LagInv
<1> QED
  BY <1>2, <1>4, <1>5, <1>6, <1>7, <1>8 DEF ProducerInv

(***************************************************************************)
(* Any other message or frame.                                             *)
(***************************************************************************)
LEMMA ReadOtherKeeps ==
  ASSUME ProducerInv, ReadOther \/ ReadFrame
  PROVE  ProducerInv'
<1>0. TypeOK /\ SocketInv /\ QueueInv /\ WaitInv /\ LagInv
  BY DEF ProducerInv
<1>1. /\ reader = "recv" /\ reader' \in {"recv", "reporting"} /\ link # "over"
      /\ UNCHANGED <<running, fatal, failed, events, consumer, timer, quiet>>
  BY DEF ReadOther, ReadFrame, LibraryFrame, OverFrame, ShutdownFrame, Message
<1>2. SocketTypeOK'
  <2>1. SocketTypeOK
    BY <1>0 DEF TypeOK
  <2>2. CASE Message
    BY <2>1, <2>2, MessageType
  <2>3. CASE LibraryFrame
    BY <2>1, <2>3 DEF LibraryFrame, SocketTypeOK
  <2>4. CASE OverFrame
    BY <2>1, <2>4 DEF OverFrame, SocketTypeOK
  <2>5. CASE ShutdownFrame
    BY <2>1, <2>5 DEF ShutdownFrame, SocketTypeOK
  <2> QED
    BY <2>2, <2>3, <2>4, <2>5 DEF ReadOther, ReadFrame
<1>3. SocketInv'
  <2>1. ~due
    BY <1>0, <1>1 DEF SocketInv
  <2> QED
    BY <1>0, <1>1, <2>1 DEF ReadOther, ReadFrame, LibraryFrame, OverFrame, ShutdownFrame,
                            Message, SocketInv
<1>4. \E anew \in BOOLEAN : NoteRecovery(anew)
  <2>1. Recovery \in BOOLEAN /\ recovered \in BOOLEAN
    BY <1>0 DEF Recovery, TypeOK, SocketTypeOK
  <2> QED
    BY <2>1 DEF ReadOther, ReadFrame
<1>5. /\ recovered' \in BOOLEAN /\ extended' \in BOOLEAN
      /\ silence' \in [Symbols -> 0..Deadline]
      /\ WaitInv' /\ LagInv'
  BY <1>0, <1>1, <1>4, RecoveryNoted
<1>6. TypeOK'
  BY <1>0, <1>1, <1>2, <1>5 DEF TypeOK
<1>7. QueueInv'
  BY <1>0, <1>1 DEF QueueInv
<1>8. FatalInv'
  <2>1. fatal' = "no"
    BY <1>1, AtWork
  <2> QED
    BY <2>1 DEF FatalInv, FailureComesLast, StallIsReal
<1> QED
  BY <1>3, <1>5, <1>6, <1>7, <1>8 DEF ProducerInv

(***************************************************************************)
(* The socket gave up: the reader queues the end marker and is done.       *)
(***************************************************************************)
LEMMA FailsKeeps ==
  ASSUME ProducerInv, reader \in {"recv", "reporting", "reconnecting"},
         NEW tries \in 0..MaxAttempts, Fails(tries)
  PROVE  ProducerInv'
<1>0. TypeOK /\ SocketInv /\ QueueInv /\ WaitInv /\ LagInv
  BY DEF ProducerInv
<1>1. /\ reader' = "done" /\ due' = FALSE /\ libraryRecovering' = FALSE
      /\ streak' = tries /\ failed' = TRUE
      /\ UNCHANGED <<link, sinceOk, running, fatal, recovered, extended, silence, consumer,
                     timer, quiet>>
  BY DEF Fails, GiveUp, watch
<1>2. StopReader
  BY DEF StopReader, Fails
<1>3. events' \in Seq(Symbols \cup {End}) /\ QueueInv'
  BY <1>0, <1>2, StoppedQueue
<1>4. SocketTypeOK'
  BY <1>0, <1>1 DEF TypeOK, SocketTypeOK
<1>5. TypeOK'
  BY <1>0, <1>1, <1>3, <1>4 DEF TypeOK
<1>6. SocketInv'
  BY <1>1 DEF SocketInv
<1>7. FatalInv'
  <2>1. fatal' = "no"
    BY <1>1, AtWork
  <2> QED
    BY <2>1 DEF FatalInv, FailureComesLast, StallIsReal
<1>8. WaitInv' /\ LagInv'
  BY <1>0, <1>1 DEF WaitInv, LagInv
<1> QED
  BY <1>3, <1>5, <1>6, <1>7, <1>8 DEF ProducerInv

(***************************************************************************)
(* The streak a reconnection starts from is a possible one.                *)
(***************************************************************************)
LEMMA FreshStreakType == SocketTypeOK => FreshStreak \in 0..MaxAttempts
BY Constants DEF SocketTypeOK, FreshStreak

(***************************************************************************)
(* The reader's steps that leave the queue and the guard alone: only the   *)
(* socket and the place of the reader have to be looked at.                *)
(***************************************************************************)
LEMMA SocketStep ==
  ASSUME ProducerInv, reader # "done", SocketTypeOK', SocketInv',
         reader' \in {"recv", "reconnecting"}, recovered' \in BOOLEAN,
         UNCHANGED <<running, fatal, failed, events, watch, consumer, timer, quiet>>
  PROVE  ProducerInv'
<1>0. TypeOK /\ QueueInv /\ WaitInv /\ LagInv
  BY DEF ProducerInv
<1>1. UNCHANGED <<running, fatal, failed, events, extended, silence, consumer, timer, quiet>>
  BY DEF watch
<1>2. TypeOK'
  BY <1>0, <1>1 DEF TypeOK
<1>3. QueueInv'
  BY <1>0, <1>1, NoEndYet DEF QueueInv
<1>4. FatalInv'
  <2>1. fatal' = "no"
    BY <1>1, AtWork
  <2> QED
    BY <2>1 DEF FatalInv, FailureComesLast, StallIsReal
<1>5. WaitInv' /\ LagInv'
  BY <1>0, <1>1 DEF WaitInv, LagInv
<1> QED
  BY <1>2, <1>3, <1>4, <1>5 DEF ProducerInv

(***************************************************************************)
(* _reconnect begins, with the library's read loop over.                   *)
(***************************************************************************)
LEMMA ReconnectBegins ==
  ASSUME ProducerInv, reader # "done", link = "over", StartReconnect,
         reader' = "reconnecting",
         UNCHANGED <<running, fatal, failed, events, recovered, watch, consumer, timer, quiet>>
  PROVE  ProducerInv'
<1>0. SocketTypeOK /\ recovered \in BOOLEAN
  BY DEF ProducerInv, TypeOK
<1>1. /\ FreshStreak \in 0..MaxAttempts /\ FreshStreak < MaxAttempts
      /\ due' = FALSE /\ libraryRecovering' = FALSE /\ streak' = FreshStreak + 1
      /\ UNCHANGED <<link, sinceOk>>
  BY <1>0, FreshStreakType DEF StartReconnect, MayAttempt
<1>2. streak' \in 0..MaxAttempts
  BY <1>1, Constants
<1>3. SocketTypeOK'
  BY <1>0, <1>1, <1>2 DEF SocketTypeOK
<1>4. SocketInv'
  BY <1>1 DEF SocketInv
<1> QED
  BY <1>0, <1>3, <1>4, SocketStep

(***************************************************************************)
(* The reader's other steps.                                               *)
(***************************************************************************)
LEMMA ReaderKeeps ==
  ASSUME ProducerInv, StartReader \/ ReadRaises \/ Reported \/ Reconnect
  PROVE  ProducerInv'
<1>0. /\ TypeOK /\ SocketInv /\ SocketTypeOK /\ recovered \in BOOLEAN
      /\ FreshStreak \in 0..MaxAttempts /\ streak \in 0..MaxAttempts
  BY FreshStreakType DEF ProducerInv, TypeOK, SocketTypeOK
<1>1. CASE StartReader
  <2>1. /\ reader = "created" /\ reader' = "recv"
        /\ UNCHANGED <<link, due, libraryRecovering, streak, sinceOk, recovered>>
        /\ UNCHANGED <<running, fatal, failed, events, watch, consumer, timer, quiet>>
    BY <1>1 DEF StartReader, socket
  <2>2. SocketTypeOK' /\ SocketInv'
    BY <1>0, <2>1 DEF SocketTypeOK, SocketInv
  <2> QED
    BY <1>0, <2>1, <2>2, SocketStep
<1>2. CASE ReadRaises
  <2>1. CASE Fails(FreshStreak)
    BY <1>0, <1>2, <2>1, FailsKeeps DEF ReadRaises, RecvRaises
  <2>2. CASE ~Fails(FreshStreak)
    BY <1>2, <2>2, ReconnectBegins DEF ReadRaises, RecvRaises
  <2> QED
    BY <2>1, <2>2
<1>3. CASE Reported
  <2>1. CASE due /\ Fails(FreshStreak)
    BY <1>0, <1>3, <2>1, FailsKeeps DEF Reported
  <2>2. CASE due /\ StartReconnect /\ ~Fails(FreshStreak)
    <3>1. link = "over"
      BY <1>0, <2>2 DEF SocketInv
    <3> QED
      BY <1>3, <2>2, <3>1, ReconnectBegins DEF Reported
  <2>3. CASE ~due
    <3>1. /\ reader = "reporting" /\ reader' = "recv"
          /\ UNCHANGED <<link, due, libraryRecovering, streak, sinceOk, recovered>>
          /\ UNCHANGED <<running, fatal, failed, events, watch, consumer, timer, quiet>>
      BY <1>3, <2>3 DEF Reported, socket
    <3>2. SocketTypeOK' /\ SocketInv'
      BY <1>0, <3>1 DEF SocketTypeOK, SocketInv
    <3> QED
      BY <1>0, <3>1, <3>2, SocketStep
  <2> QED
    BY <1>3, <2>1, <2>2, <2>3 DEF Reported
<1>4. CASE Reconnect
  <2>1. CASE Fails(streak)
    BY <1>0, <1>4, <2>1, FailsKeeps DEF Reconnect
  <2>2. CASE Connected /\ reader' = "recv" /\ recovered' = TRUE
             /\ UNCHANGED <<running, fatal, failed, events, watch, consumer, timer, quiet>>
    <3>1. /\ reader = "reconnecting" /\ ~due /\ ~libraryRecovering
          /\ link' = "up" /\ sinceOk' = 0 /\ UNCHANGED <<due, libraryRecovering, streak>>
      BY <1>0, <1>4, <2>2 DEF Reconnect, Connected, SocketInv
    <3>2. SocketTypeOK' /\ SocketInv'
      BY <1>0, <2>2, <3>1, Constants DEF SocketTypeOK, SocketInv
    <3> QED
      BY <2>2, <3>1, <3>2, SocketStep
  <2>3. CASE TryAgain
             /\ UNCHANGED <<running, fatal, reader, failed, events, recovered, watch,
                            consumer, timer, quiet>>
    <3>1. /\ reader = "reconnecting" /\ streak' = streak + 1 /\ streak < MaxAttempts
          /\ UNCHANGED <<link, due, libraryRecovering, sinceOk, reader, recovered>>
      BY <1>4, <2>3 DEF Reconnect, TryAgain, MayAttempt
    <3>2. streak' \in 0..MaxAttempts
      BY <1>0, <3>1, Constants
    <3>3. SocketTypeOK' /\ SocketInv'
      BY <1>0, <3>1, <3>2 DEF SocketTypeOK, SocketInv
    <3> QED
      BY <1>0, <2>3, <3>1, <3>3, SocketStep
  <2> QED
    BY <1>4, <2>1, <2>2, <2>3 DEF Reconnect
<1> QED
  BY <1>1, <1>2, <1>3, <1>4

-----------------------------------------------------------------------------
(* Stopping, and the consumer. *)

(***************************************************************************)
(* Whoever stops the reader of a stream that has not failed: if that is    *)
(* the failure, it is a stall, and some symbol was silent for the whole    *)
(* deadline.                                                               *)
(***************************************************************************)
LEMMA StopKeeps ==
  ASSUME ProducerInv, fatal = "no", StopReader,
         running' \in {running, FALSE}, consumer' \in {consumer, "ended"},
         \/ fatal' = "no"
         \/ /\ fatal' = "stall" /\ consumer' = "ended" /\ running' = FALSE
            /\ \E s \in Symbols : silence[s] = Deadline,
         UNCHANGED <<socket, failed, recovered, watch, timer, quiet>>
  PROVE  ProducerInv'
<1>0. TypeOK /\ SocketInv /\ QueueInv /\ WaitInv /\ LagInv
  BY DEF ProducerInv
<1>1. events' \in Seq(Symbols \cup {End}) /\ QueueInv' /\ reader' = "done"
  BY <1>0, StoppedQueue
<1>2. UNCHANGED <<link, due, libraryRecovering, streak, sinceOk, failed, recovered, extended,
                 silence, timer, quiet>>
  BY DEF socket, watch
<1>3. TypeOK'
  <2>1. SocketTypeOK'
    BY <1>0, <1>2 DEF TypeOK, SocketTypeOK
  <2> QED
    BY <1>0, <1>1, <1>2, <2>1 DEF TypeOK
<1>4. SocketInv'
  BY <1>0, <1>1, <1>2 DEF SocketInv
<1>5. FatalInv'
  BY <1>1, <1>2 DEF FatalInv, FailureComesLast, StallIsReal
<1>6. WaitInv' /\ LagInv'
  BY <1>0, <1>2 DEF WaitInv, LagInv
<1> QED
  BY <1>1, <1>3, <1>4, <1>5, <1>6 DEF ProducerInv

(***************************************************************************)
(* Steps of the consumer and the engine that only move the consumer.       *)
(***************************************************************************)
LEMMA ConsumerMoves ==
  ASSUME ProducerInv, consumer # "ended", consumer' \in {"loop", "holding"},
         QueueInv', events' \in Seq(Symbols \cup {End}),
         UNCHANGED <<socket, running, fatal, reader, failed, recovered, watch, timer, quiet>>
  PROVE  ProducerInv'
<1>0. TypeOK /\ SocketInv /\ LagInv
  BY DEF ProducerInv
<1>1. UNCHANGED <<link, due, libraryRecovering, streak, sinceOk, running, fatal, reader, failed,
                 recovered, extended, silence, timer, quiet>>
  BY DEF socket, watch
<1>2. TypeOK'
  <2>1. SocketTypeOK'
    BY <1>0, <1>1 DEF TypeOK, SocketTypeOK
  <2> QED
    BY <1>0, <1>1, <2>1 DEF TypeOK
<1>3. SocketInv'
  BY <1>0, <1>1 DEF SocketInv
<1>4. FatalInv'
  <2>1. fatal' = "no"
    BY <1>1, AtWork
  <2> QED
    BY <2>1 DEF FatalInv, FailureComesLast, StallIsReal
<1>5. WaitInv' /\ LagInv'
  BY <1>0, <1>1 DEF WaitInv, LagInv
<1> QED
  BY <1>2, <1>3, <1>4, <1>5 DEF ProducerInv

(***************************************************************************)
(* The head of the loop: a stall is declared by the longest silence, and   *)
(* the wait is set by it.                                                  *)
(***************************************************************************)
LEMMA WatchKeeps ==
  ASSUME ProducerInv, Watch
  PROVE  ProducerInv'
<1>0. /\ TypeOK /\ SocketInv /\ QueueInv /\ LagInv /\ fatal = "no"
      /\ consumer = "loop" /\ silence \in [Symbols -> 0..Deadline]
  BY AtWork DEF ProducerInv, Watch, TypeOK
<1>1. /\ Longest \in 0..Deadline
      /\ \E s \in Symbols : silence[s] = Longest
      /\ \A s \in Symbols : silence[s] <= Longest
  BY <1>0, LongestSilence
<1>2. CASE ~running /\ Leave
  BY <1>0, <1>2, StopKeeps DEF Leave, Ends
<1>3. CASE running /\ Longest >= Deadline /\ Fatal("stall")
  <2>1. \E s \in Symbols : silence[s] = Deadline
    BY <1>1, <1>3, Constants
  <2> QED
    BY <1>0, <1>3, <2>1, StopKeeps DEF Fatal, Stop, Ends
<1>4. CASE running /\ consumer' = "waiting" /\ timer' = Deadline - Longest
           /\ UNCHANGED <<socket, running, fatal, reader, failed, events, recovered, watch, quiet>>
  <2>1. UNCHANGED <<link, due, libraryRecovering, streak, sinceOk, running, fatal, reader, failed,
                   events, recovered, extended, silence, quiet>>
    BY <1>4 DEF socket, watch
  <2>2. timer' \in 0..Deadline
    BY <1>1, <1>4, Constants
  <2>3. SocketTypeOK'
    BY <1>0, <2>1 DEF TypeOK, SocketTypeOK
  <2>4. TypeOK'
    BY <1>0, <1>4, <2>1, <2>2, <2>3 DEF TypeOK
  <2>5. SocketInv' /\ QueueInv' /\ LagInv'
    BY <1>0, <2>1 DEF SocketInv, QueueInv, LagInv
  <2>6. FatalInv'
    BY <1>0, <2>1 DEF FatalInv, FailureComesLast, StallIsReal
  <2>7. WaitInv'
    <3> SUFFICES ASSUME NEW s \in Symbols PROVE silence'[s] + timer' <= Deadline
      BY DEF WaitInv
    <3>1. silence'[s] \in Nat /\ silence'[s] <= Longest
      BY <1>0, <1>1, <2>1, Constants
    <3> QED
      BY <1>1, <1>4, <3>1, Constants
  <2> QED
    BY <2>4, <2>5, <2>6, <2>7 DEF ProducerInv
<1> QED
  BY <1>2, <1>3, <1>4 DEF Watch

(***************************************************************************)
(* A queued item arrives.  The reception failure is found with the end     *)
(* marker, behind which there is nothing.                                  *)
(***************************************************************************)
LEMMA TakeKeeps ==
  ASSUME ProducerInv, Take
  PROVE  ProducerInv'
<1>0. /\ TypeOK /\ SocketInv /\ QueueInv /\ WaitInv /\ LagInv /\ fatal = "no"
      /\ consumer = "waiting" /\ events # <<>>
  BY AtWork DEF ProducerInv, Take
<1>1. CASE Head(events) # End /\ ~MayHandOut /\ Leave
  BY <1>0, <1>1, StopKeeps DEF Leave, Ends
<1>2. CASE Head(events) # End /\ consumer' = "holding" /\ events' = Tail(events)
           /\ UNCHANGED <<socket, running, fatal, reader, failed, recovered, watch, timer, quiet>>
  <2>1. events' \in Seq(Symbols \cup {End}) /\ QueueInv'
    BY <1>0, <1>2, TakenQueue
  <2> QED
    BY <1>0, <1>2, <2>1, ConsumerMoves
<1>3. CASE /\ Head(events) = End /\ reader' = "done" /\ events' = Tail(events) /\ Ends
           /\ \/ fatal' = "recv" /\ running' = FALSE
              \/ UNCHANGED <<running, fatal>>
  <2>1. events' \in Seq(Symbols \cup {End}) /\ QueueInv' /\ events' = <<>>
    BY <1>0, <1>3, TakenQueue
  <2>2. /\ consumer' = "ended" /\ running' \in BOOLEAN /\ fatal' \in {"no", "recv"}
        /\ fatal' = "recv" => running' = FALSE
        /\ UNCHANGED <<link, due, libraryRecovering, streak, sinceOk, failed, recovered, extended,
                       silence, timer, quiet>>
    BY <1>0, <1>3 DEF Ends, socket, watch, TypeOK
  <2>3. SocketTypeOK'
    BY <1>0, <2>2 DEF TypeOK, SocketTypeOK
  <2>4. TypeOK'
    BY <1>0, <1>3, <2>1, <2>2, <2>3 DEF TypeOK
  <2>5. SocketInv'
    BY <1>0, <1>3, <2>2 DEF SocketInv
  <2>6. FatalInv'
    BY <1>3, <2>1, <2>2 DEF FatalInv, FailureComesLast, StallIsReal
  <2>7. WaitInv' /\ LagInv'
    BY <1>0, <2>2 DEF WaitInv, LagInv
  <2> QED
    BY <2>1, <2>4, <2>5, <2>6, <2>7 DEF ProducerInv
<1> QED
  BY <1>1, <1>2, <1>3 DEF Take

(***************************************************************************)
(* The other steps of the consumer, of the engine and of the trader.       *)
(***************************************************************************)
LEMMA OthersKeep ==
  ASSUME ProducerInv, TimeOut \/ Resume \/ Abandon \/ RequestStop
  PROVE  ProducerInv'
<1>1. fatal = "no"
  BY AtWork DEF TimeOut, Resume, Abandon, RequestStop
<1>2. CASE TimeOut \/ Resume
  <2>1. /\ consumer # "ended" /\ consumer' = "loop"
        /\ UNCHANGED <<socket, running, fatal, reader, failed, events, recovered, watch, timer,
                       quiet>>
    BY <1>2 DEF TimeOut, Resume
  <2>2. events' \in Seq(Symbols \cup {End}) /\ QueueInv'
    BY <2>1 DEF ProducerInv, TypeOK, QueueInv
  <2> QED
    BY <2>1, <2>2, ConsumerMoves
<1>3. CASE Abandon
  BY <1>1, <1>3, StopKeeps DEF Abandon, Stop, Ends
<1>4. CASE RequestStop
  BY <1>1, <1>4, StopKeeps DEF RequestStop, Stop
<1> QED
  BY <1>2, <1>3, <1>4

-----------------------------------------------------------------------------
(* Time. *)

LEMMA OlderType ==
  ASSUME NEW limit \in Nat, NEW age \in 0..limit
  PROVE  /\ Older(age, limit) \in 0..limit
         /\ age <= Older(age, limit) /\ Older(age, limit) <= age + 1
         /\ age < limit => Older(age, limit) = age + 1
BY DEF Older

(***************************************************************************)
(* While the consumer waits, every silence grows with the time it waited;  *)
(* while the engine holds an event only the silences grow.                 *)
(***************************************************************************)
LEMMA TickKeeps ==
  ASSUME ProducerInv, Tick
  PROVE  ProducerInv'
<1>0. /\ TypeOK /\ SocketInv /\ QueueInv /\ WaitInv /\ LagInv /\ fatal = "no"
      /\ silence \in [Symbols -> 0..Deadline] /\ timer \in 0..Deadline
      /\ quiet \in [Symbols -> 0..2 * Deadline + 1]
      /\ 2 * Deadline + 1 \in Nat
  BY AtWork, Constants DEF ProducerInv, Tick, TypeOK
<1>1. /\ UNCHANGED <<link, due, libraryRecovering, streak, running, fatal, reader, failed, events,
                     recovered, extended, consumer>>
      /\ silence' = [s \in Symbols |-> Older(silence[s], Deadline)]
      /\ timer' = IF consumer = "waiting" THEN timer - 1 ELSE timer
      /\ consumer = "holding" \/ (consumer = "waiting" /\ timer > 0)
  BY DEF Tick
<1>2. silence' \in [Symbols -> 0..Deadline]
  BY <1>0, <1>1, OlderType, Constants
<1>3. timer' \in 0..Deadline
  BY <1>0, <1>1, Constants
<1>4. quiet' \in [Symbols -> 0..2 * Deadline + 1]
  <2>1. CASE consumer = "waiting"
    <3>1. quiet' = [s \in Symbols |-> Older(quiet[s], 2 * Deadline + 1)]
      BY <2>1 DEF Tick
    <3>2. \A s \in Symbols : Older(quiet[s], 2 * Deadline + 1) \in 0..2 * Deadline + 1
      BY <1>0, OlderType
    <3> QED
      BY <3>1, <3>2
  <2>2. CASE consumer # "waiting"
    BY <1>0, <2>2 DEF Tick
  <2> QED
    BY <2>1, <2>2
<1>5. sinceOk' \in 0..StableAfter + 1
  BY <1>0, Constants DEF Tick, SocketAges, TypeOK, SocketTypeOK
<1>6. TypeOK'
  <2>1. SocketTypeOK'
    BY <1>0, <1>1, <1>5 DEF TypeOK, SocketTypeOK
  <2> QED
    BY <1>0, <1>1, <1>2, <1>3, <1>4, <2>1 DEF TypeOK
<1>7. SocketInv' /\ QueueInv'
  BY <1>0, <1>1 DEF SocketInv, QueueInv
<1>8. FatalInv'
  BY <1>0, <1>1 DEF FatalInv, FailureComesLast, StallIsReal
<1>9. WaitInv'
  <2> SUFFICES ASSUME consumer' = "waiting", NEW s \in Symbols
               PROVE  silence'[s] + timer' <= Deadline
    BY DEF WaitInv
  <2>1. silence[s] \in 0..Deadline /\ silence[s] + timer <= Deadline
    BY <1>0, <1>1 DEF WaitInv
  <2>2. silence'[s] = Older(silence[s], Deadline) /\ timer' = timer - 1
    BY <1>1
  <2>3. silence'[s] \in Nat /\ silence'[s] <= silence[s] + 1
    BY <2>1, <2>2, OlderType, Constants
  <2> QED
    BY <1>0, <2>1, <2>2, <2>3, Constants
<1>10. LagInv'
  <2> DEFINE lag == IF extended THEN Deadline ELSE 0
  <2>1. lag \in Nat
    BY Constants
  <2>2. PICK x \in Symbols : quiet[x] <= silence[x] + lag
    BY <1>0 DEF LagInv
  <2>3. silence[x] \in 0..Deadline /\ quiet[x] \in 0..2 * Deadline + 1
    BY <1>0
  <2>4. silence'[x] = Older(silence[x], Deadline)
    BY <1>1
  <2>5. quiet'[x] <= silence'[x] + lag
    <3> HIDE DEF lag
    <3>1. CASE consumer = "waiting"
      <4>1. silence[x] < Deadline
        BY <1>0, <1>1, <2>3, <3>1, Constants DEF WaitInv
      <4>2. silence'[x] = silence[x] + 1
        BY <2>3, <2>4, <4>1, OlderType, Constants
      <4>3. quiet'[x] = Older(quiet[x], 2 * Deadline + 1)
        BY <3>1 DEF Tick
      <4>4. quiet'[x] \in Nat /\ quiet'[x] <= quiet[x] + 1
        BY <1>0, <1>4, <2>3, <4>3, OlderType
      <4> QED
        BY <2>1, <2>2, <2>3, <4>2, <4>4
    <3>2. CASE consumer # "waiting"
      <4>1. quiet'[x] = quiet[x]
        BY <3>2 DEF Tick
      <4>2. silence'[x] \in 0..Deadline /\ silence[x] <= silence'[x]
        BY <2>3, <2>4, OlderType, Constants
      <4> QED
        BY <2>1, <2>2, <2>3, <4>1, <4>2, Constants
    <3> QED
      BY <3>1, <3>2
  <2> QED
    BY <1>1, <2>5 DEF LagInv
<1> QED
  BY <1>6, <1>7, <1>8, <1>9, <1>10 DEF ProducerInv

-----------------------------------------------------------------------------
LEMMA NextProducer == ProducerInv /\ [Next]_vars => ProducerInv'
<1> SUFFICES ASSUME ProducerInv, [Next]_vars PROVE ProducerInv'
  OBVIOUS
<1>1. CASE StartReader \/ ReadRaises \/ Reported \/ Reconnect
  BY <1>1, ReaderKeeps
<1>2. CASE Read
  BY <1>2, ReadClosedKeeps, ReadOtherKeeps DEF Read
<1>3. CASE TimeOut \/ Resume \/ Abandon \/ RequestStop
  BY <1>3, OthersKeep
<1>4. CASE Watch
  BY <1>4, WatchKeeps
<1>5. CASE Take
  BY <1>5, TakeKeeps
<1>6. CASE Tick
  BY <1>6, TickKeeps
<1>7. CASE UNCHANGED vars
  <2>1. UNCHANGED <<link, due, libraryRecovering, streak, sinceOk, running, fatal, reader, failed,
                   events, recovered, extended, silence, consumer, timer, quiet>>
    BY <1>7 DEF vars, socket, watch
  <2>2. TypeOK' /\ SocketInv' /\ QueueInv'
    BY <2>1 DEF ProducerInv, TypeOK, SocketTypeOK, SocketInv, QueueInv
  <2>3. FatalInv' /\ WaitInv' /\ LagInv'
    BY <2>1 DEF ProducerInv, FatalInv, FailureComesLast, StallIsReal, WaitInv, LagInv
  <2> QED
    BY <2>2, <2>3 DEF ProducerInv
<1> QED
  BY <1>1, <1>2, <1>3, <1>4, <1>5, <1>6, <1>7 DEF Next, Consume

(***************************************************************************)
(* The inductive invariant holds in every execution of the live source.    *)
(***************************************************************************)
THEOREM ProducerInvariant == Spec => []ProducerInv
<1>1. Init => ProducerInv
  BY InitProducer
<1>2. ProducerInv /\ [Next]_vars => ProducerInv'
  BY NextProducer
<1> QED
  BY <1>1, <1>2, PTL DEF Spec

(***************************************************************************)
(* Never do the library and this class reconnect at once, and no recovery  *)
(* is counted twice: recv() and _reconnect of reliable_websocket.py.       *)
(***************************************************************************)
THEOREM LayersExclude == Spec => []OneLayerReconnects
<1>1. ProducerInv => OneLayerReconnects
  BY DEF ProducerInv, SocketInv, OneLayerReconnects, NoDoubleReconnect, RecoveryCountedOnce
<1> QED
  BY <1>1, ProducerInvariant, PTL

(***************************************************************************)
(* A reception failure ends the stream only behind every candle that was   *)
(* queued before it: _read_socket and __aiter__ of live.py.                *)
(***************************************************************************)
THEOREM NothingLostToFailure == Spec => []FailureComesLast
<1>1. ProducerInv => FailureComesLast
  BY DEF ProducerInv, FatalInv
<1> QED
  BY <1>1, ProducerInvariant, PTL

(***************************************************************************)
(* A stall is declared only for a symbol silent for the whole deadline,    *)
(* however reconnections and arrivals race with the wait of __aiter__.     *)
(***************************************************************************)
THEOREM StallsAreReal == Spec => []StallIsReal
<1>1. ProducerInv => StallIsReal
  BY DEF ProducerInv, FatalInv
<1> QED
  BY <1>1, ProducerInvariant, PTL

(***************************************************************************)
(* The stall guard is never out by more than one extension: a stream       *)
(* without candles is caught within twice the deadline, however often it   *)
(* reconnects (_note_recovery of live.py).                                 *)
(***************************************************************************)
THEOREM SilenceIsCaught == Spec => []CaughtWithinTwice
<1>1. ProducerInv => CaughtWithinTwice
  <2> SUFFICES ASSUME ProducerInv PROVE \E s \in Symbols : quiet[s] <= 2 * Deadline
    BY DEF CaughtWithinTwice
  <2> DEFINE lag == IF extended THEN Deadline ELSE 0
  <2>1. lag \in 0..Deadline
    BY Constants
  <2>2. PICK s \in Symbols : quiet[s] <= silence[s] + lag
    BY DEF ProducerInv, LagInv
  <2>3. silence[s] \in 0..Deadline /\ quiet[s] \in 0..2 * Deadline + 1
    BY DEF ProducerInv, TypeOK
  <2> HIDE DEF lag
  <2> QED
    BY <2>1, <2>2, <2>3, Constants
<1> QED
  BY <1>1, ProducerInvariant, PTL

(***************************************************************************)
(* Once the stream was stopped the engine is handed nothing more, not even *)
(* what is already queued: __aiter__ of live.py looks at _running after    *)
(* the wait.                                                               *)
(***************************************************************************)
THEOREM SilentAfterStop == Spec => NothingAfterStop
<1>1. [Next]_vars => (consumer' = "holding" /\ consumer # "holding" => running)
  <2> SUFFICES ASSUME Next, consumer' = "holding", consumer # "holding" PROVE running
    BY DEF vars
  <2>1. Take
    BY DEF Next, StartReader, Read, ReadClosed, ReadOther, ReadFrame, ReadRaises, RecvRaises,
           Reported, Reconnect, Fails, RequestStop, Consume, Watch, Leave, Fatal, Ends, TimeOut,
           Resume, Abandon, Tick
  <2> QED
    BY <2>1 DEF Take, MayHandOut, Ends, Leave
<1> QED
  BY <1>1, PTL DEF Spec, NothingAfterStop

=============================================================================
