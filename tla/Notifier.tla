------------------------------- MODULE Notifier -------------------------------
(***************************************************************************)
(* Delivery of alert notices (internal/notify, cmd/notifier): one consumer *)
(* takes the events of notify.alerts in order, sends each to every enabled *)
(* channel with retries, records the outcome and acknowledges the event.   *)
(*                                                                         *)
(* The broker is external: an event not acknowledged when the stream       *)
(* breaks or the process dies is delivered again, in its place.  What a    *)
(* notice says is left out: an endpoint accepts it, rejects it, is in      *)
(* error or does not answer.                                               *)
(***************************************************************************)
EXTENDS Naturals, Sequences, FiniteSets

CONSTANTS
  Notices,      \* alert events, in the order they were published: a sequence of
                \* severities, "malformed" for a body that is not one
  Channels,     \* notify.channels
  Mails,        \* those of kind email; the others are HTTP endpoints
  MaxAttempts,  \* retry policy
  MaxBreaks     \* bound on broken streams, restarts and changes of channels

ASSUME NotifierAssumption ==
  /\ MaxAttempts \in Nat \ {0} /\ MaxBreaks \in Nat /\ Mails \subseteq Channels
  /\ Notices \in Seq({"critical", "warning", "info", "malformed"})

VARIABLES
  enabled,    \* channels that exist and are enabled
  cache,      \* Dispatcher.cache, {} and not loaded before the first event
  pending,    \* notify.alerts: indexes of Notices not acknowledged, in order
  handling,   \* the event being handled, [pc, ...]
  outcomes,   \* what became of an event at a channel: <<event, channel, status>>
  stopping,   \* SIGTERM has cancelled the context
  listed,     \* history: the channels each event was last routed to, partial
  breaks

notifierVars == <<enabled, cache, pending, handling, outcomes, stopping, listed, breaks>>

NotLoaded == [loaded |-> FALSE, of |-> {}]
NoNotice == [pc |-> "none"]

NotifierInit ==
  /\ enabled \in SUBSET Channels
  /\ cache = NotLoaded /\ pending = [i \in 1..Len(Notices) |-> i]
  /\ handling = NoNotice /\ outcomes = {} /\ listed = <<>> /\ breaks = 0
  /\ stopping = FALSE

-----------------------------------------------------------------------------
(* The consumer.                                                           *)

\* Variant: the event is acknowledged when it is taken.
TakeNoticeAcked ==
  /\ handling = NoNotice /\ pending # <<>>
  /\ handling' = [pc |-> "route", event |-> Head(pending), stale |-> FALSE]
  /\ pending' = Tail(pending)
  /\ UNCHANGED <<enabled, cache, outcomes, stopping, listed, breaks>>

\* The next event; it stays in the queue until it is acknowledged.
TakeNotice ==
  /\ handling = NoNotice /\ pending # <<>>
  /\ handling' = [pc |-> "route", event |-> Head(pending), stale |-> FALSE]
  /\ UNCHANGED <<enabled, cache, pending, outcomes, stopping, listed, breaks>>

\* Ack of the event in hand, still the first of the queue; of no effect once
\* the stream it came from has broken.
AckNotice ==
  /\ handling.pc = "ack" /\ handling' = NoNotice
  /\ pending' = IF handling.stale THEN pending ELSE Tail(pending)
  /\ UNCHANGED <<enabled, cache, outcomes, stopping, listed, breaks>>

Breaking == breaks < MaxBreaks /\ breaks' = breaks + 1

\* The handler goes on; its event will be delivered again.
AlertStreamBreaks ==
  /\ handling # NoNotice /\ ~handling.stale /\ Breaking
  /\ handling' = [handling EXCEPT !.stale = TRUE]
  /\ UNCHANGED <<enabled, cache, pending, outcomes, stopping, listed>>

NotifierCrashes ==
  /\ Breaking /\ handling' = NoNotice /\ cache' = NotLoaded /\ stopping' = FALSE
  /\ UNCHANGED <<enabled, pending, outcomes, listed>>

\* SIGTERM: an event in hand is handled to its end, with no more retries, and
\* the loop may take another before it sees that it is to stop.
NotifierStops ==
  /\ ~stopping /\ Breaking /\ stopping' = TRUE
  /\ UNCHANGED <<enabled, cache, pending, handling, outcomes, listed>>

NotifierRestarts ==
  /\ stopping /\ handling = NoNotice /\ stopping' = FALSE /\ cache' = NotLoaded
  /\ UNCHANGED <<enabled, pending, handling, outcomes, listed, breaks>>

-----------------------------------------------------------------------------
(* Dispatcher.Handle.                                                      *)

ToAck == [pc |-> "ack", event |-> handling.event, stale |-> handling.stale]
Sending(left, attempt) ==
  IF left = {} THEN ToAck
  ELSE [pc |-> "send", event |-> handling.event, stale |-> handling.stale, left |-> left, attempt |-> attempt]

\* The event was last routed to these channels.
RoutedTo(i, to) == listed' = [j \in DOMAIN listed \cup {i} |-> IF j = i THEN to ELSE listed[j]]

\* Nobody is told of info, and a body that cannot be decoded is rejected, which
\* takes it off the queue as an acknowledgement does.
Untold == {"info", "malformed"}
SkipInfo ==
  /\ handling.pc = "route" /\ Notices[handling.event] \in Untold /\ handling' = ToAck
  /\ UNCHANGED <<enabled, cache, pending, outcomes, stopping, listed, breaks>>

\* The channels as cached for a minute, or as they are now.
Route(fresh) ==
  /\ handling.pc = "route" /\ Notices[handling.event] \notin Untold /\ (IF fresh THEN ~stopping ELSE cache.loaded)
  /\ cache' = IF fresh THEN [loaded |-> TRUE, of |-> enabled] ELSE cache
  /\ handling' = Sending(cache'.of, 1)
  /\ RoutedTo(handling.event, cache'.of)
  /\ UNCHANGED <<enabled, pending, outcomes, stopping, breaks>>

\* Channels that cannot be read, or a secret that cannot be unsealed: the
\* event is acknowledged all the same.
RouteFails ==
  /\ handling.pc = "route" /\ Notices[handling.event] \notin Untold /\ handling' = ToAck
  /\ RoutedTo(handling.event, {})
  /\ UNCHANGED <<enabled, cache, pending, outcomes, stopping, breaks>>

\* The senders.
doPost(answer) ==
  CASE answer = "accepted" -> "ok" [] answer = "rejected" -> "permanent" [] OTHER -> "transient"
SendMail(answer) == IF answer = "accepted" THEN "ok" ELSE "transient"
SendOnce(ch, configured, answer) ==
  CASE ~configured -> "permanent" [] configured /\ ch \in Mails -> SendMail(answer) [] OTHER -> doPost(answer)

\* retryx.Do: what fails for now is tried again, up to the limit.
Retries(result, attempt) == result = "transient" /\ attempt < MaxAttempts /\ ~stopping

\* Record; a row that cannot be written is only logged.
Record(ch, status) == outcomes' = outcomes \cup {<<handling.event, ch, status>>}

\* One attempt on the next channel.
Send(ch, configured, answer) ==
  /\ handling.pc = "send" /\ ch = CHOOSE x \in handling.left : TRUE
  /\ LET result == SendOnce(ch, configured, answer)
     IN IF Retries(result, handling.attempt)
        THEN handling' = Sending(handling.left, handling.attempt + 1) /\ UNCHANGED outcomes
        ELSE handling' = Sending(handling.left \ {ch}, 1) /\ Record(ch, IF result = "ok" THEN "ok" ELSE "failed")
  /\ UNCHANGED <<enabled, cache, pending, stopping, listed, breaks>>

-----------------------------------------------------------------------------
(* Channel management.                                                     *)

CreateChannel(ch) ==
  /\ ch \notin enabled /\ Breaking /\ enabled' = enabled \cup {ch}
  /\ UNCHANGED <<cache, pending, handling, outcomes, stopping, listed>>

DeleteChannel(ch) ==
  /\ ch \in enabled /\ Breaking /\ enabled' = enabled \ {ch}
  /\ UNCHANGED <<cache, pending, handling, outcomes, stopping, listed>>

NotifierNext ==
  \/ TakeNotice \/ AckNotice \/ AlertStreamBreaks \/ NotifierCrashes
  \/ NotifierStops \/ NotifierRestarts
  \/ SkipInfo \/ RouteFails \/ \E fresh \in BOOLEAN : Route(fresh)
  \/ \E ch \in Channels : CreateChannel(ch) \/ DeleteChannel(ch)
                          \/ \E configured \in BOOLEAN, answer \in {"accepted", "rejected", "error", "none"} :
                               Send(ch, configured, answer)

NotifierSpec == NotifierInit /\ [][NotifierNext]_notifierVars

-----------------------------------------------------------------------------
(* Properties.                                                             *)

\* An event that has left the queue was tried on every channel it was routed
\* to, until it was accepted, refused for good, out of retries or the process
\* was told to stop, whatever broke in between (cmd/notifier acknowledges
\* after Handle, which goes through every channel).
GoneIsTried ==
  \A i \in 1..Len(Notices) :
    i \notin {pending[k] : k \in DOMAIN pending} /\ Notices[i] \notin Untold =>
      /\ i \in DOMAIN listed
      /\ \A ch \in listed[i] : \E status \in {"ok", "failed"} : <<i, ch, status>> \in outcomes
=============================================================================
