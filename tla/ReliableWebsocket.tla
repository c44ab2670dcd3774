------------------------- MODULE ReliableWebsocket -------------------------
(***************************************************************************)
(* A socket that revives itself: core/producer/reliable_websocket.py,      *)
(* ReliableWebsocket, around python-binance's ReconnectingWebsocket.       *)
(*                                                                         *)
(* The library reports a lost connection as a frame among the messages.    *)
(* After some frames it is reconnecting by itself and must be left alone;  *)
(* after the others its read loop has ended and recv() opens the socket    *)
(* anew, a bounded number of times in a row.  The operators below are the  *)
(* steps of recv(); LiveCandleProducer, whose reader task is the caller,   *)
(* composes them.  close() is called only after that task was cancelled,   *)
(* so the branches for a closing socket are never taken here.              *)
(***************************************************************************)
EXTENDS Naturals

CONSTANTS
  MaxAttempts,  \* max_attempts: reconnections in a row without a message
  StableAfter   \* stable_after_s, in ticks

ASSUME AttemptAssumption == MaxAttempts \in Nat \ {0} /\ StableAfter \in Nat

VARIABLES
  link,               \* the library's read loop: up, reconnecting, or over
  due,                \* _reconnect_due is set
  libraryRecovering,  \* _library_recovering
  streak,             \* _streak
  sinceOk             \* ticks since _last_reconnect_ok, up to StableAfter + 1

socket == <<link, due, libraryRecovering, streak, sinceOk>>

SocketTypeOK ==
  /\ link \in {"up", "retrying", "over"}
  /\ due \in BOOLEAN
  /\ libraryRecovering \in BOOLEAN
  /\ streak \in 0..MaxAttempts
  /\ sinceOk \in 0..StableAfter + 1

(* Before the first reconnection _last_reconnect_ok is None and the streak *)
(* is zero, so that its age makes no difference.                           *)
SocketInit ==
  /\ link = "up" /\ due = FALSE /\ libraryRecovering = FALSE
  /\ streak = 0 /\ sinceOk = 0

---------------------------------------------------------------------------
(* What recv() returns. *)

(* A message that is no error frame: _on_message.  After a loss reported   *)
(* by the library it is the proof that the library reconnected, and counts *)
(* as a recovery.                                                          *)
Message ==
  /\ link # "over"
  /\ link' = "up"
  /\ streak' = 0
  /\ libraryRecovering' = FALSE
  /\ UNCHANGED <<due, sinceOk>>

(* A frame of _LIBRARY_RECONNECTS. *)
LibraryFrame ==
  /\ link # "over"
  /\ link' = "retrying"
  /\ libraryRecovering' = TRUE
  /\ UNCHANGED <<due, streak, sinceOk>>

(* Any other error frame: the read loop is over.  The frame goes to the    *)
(* caller first; the next recv() begins by reconnecting.                   *)
OverFrame ==
  /\ link # "over"
  /\ link' = "over"
  /\ due' = TRUE
  /\ UNCHANGED <<libraryRecovering, streak, sinceOk>>

(* A CancelledError frame is no reason to reconnect.  If the loop really   *)
(* died, the next recv() of the library raises.                            *)
ShutdownFrame ==
  /\ link # "over"
  /\ link' \in {link, "over"}
  /\ UNCHANGED <<due, libraryRecovering, streak, sinceOk>>

---------------------------------------------------------------------------
(* _reconnect. *)

(* The streak it starts from: a socket that has held for long enough since *)
(* the last reconnection is given all its attempts again.                  *)
FreshStreak == IF sinceOk > StableAfter THEN 0 ELSE streak

MayAttempt(tries) == tries < MaxAttempts

(* A faulty variant: the library's recovery outlives our reconnection. *)
StartReconnectForgetful ==
  /\ MayAttempt(FreshStreak)
  /\ due' = FALSE
  /\ streak' = FreshStreak + 1
  /\ UNCHANGED <<link, libraryRecovering, sinceOk>>

(* From the top of recv() to the first await of the first attempt. *)
StartReconnect ==
  /\ MayAttempt(FreshStreak)
  /\ due' = FALSE
  /\ libraryRecovering' = FALSE
  /\ streak' = FreshStreak + 1
  /\ UNCHANGED <<link, sinceOk>>

(* WebsocketReconnectFailed, before a first or after a last attempt. *)
GiveUp(tries) ==
  /\ ~MayAttempt(tries)
  /\ due' = FALSE
  /\ libraryRecovering' = FALSE
  /\ streak' = tries
  /\ UNCHANGED <<link, sinceOk>>

(* delegate.close(), then a delegate.connect() that succeeds: a recovery. *)
Connected ==
  /\ link' = "up"
  /\ sinceOk' = 0
  /\ UNCHANGED <<due, libraryRecovering, streak>>

(* ... that fails, with attempts left. *)
TryAgain ==
  /\ MayAttempt(streak)
  /\ streak' = streak + 1
  /\ UNCHANGED <<link, due, libraryRecovering, sinceOk>>

SocketAges == sinceOk' = IF sinceOk > StableAfter THEN sinceOk ELSE sinceOk + 1

---------------------------------------------------------------------------
(* Every recovery that is counted follows a loss that was not: the library *)
(* is thought to be recovering only while its connection is down, so that  *)
(* a message never counts a recovery that a reconnection of this class has *)
(* counted already (_reconnect, "이중 집계 방지").                          *)
RecoveryCountedOnce == libraryRecovering => link # "up"
=============================================================================
