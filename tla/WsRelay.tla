------------------------------ MODULE WsRelay ------------------------------
(***************************************************************************)
(* The websocket relay (internal/wsrelay): clients connect a websocket     *)
(* each, requests are forwarded to one of them under an identifier of      *)
(* their own, and its replies are handed to the goroutine that waits.      *)
(*                                                                         *)
(* A session has a reader ("run", "dispatch"), a heartbeat that may find   *)
(* the connection broken, and a cleanup that whoever finds it broken       *)
(* first, or a stop of the manager, carries out once.  A request has the   *)
(* goroutine of its caller (request, then NonStream or Stream) and one     *)
(* that waits for the caller to give up.  A pending request is shared by   *)
(* all of them: a sync.Map entry and a channel of eight slots.  Sending on *)
(* that channel after it was closed is a panic no one recovers from.       *)
(*                                                                         *)
(* No provider factory is configured (service.go, ensureWebsocketGateway), *)
(* so that a session's provider is its own random name: no session is ever *)
(* replaced by another.  Pings, headers and bodies are left out.           *)
(***************************************************************************)
EXTENDS Naturals, Sequences

CONSTANTS Sessions,   \* websocket sessions
          Requests,   \* request identifiers
          Slots,      \* slots of a request's channel (8 in the code)
          MaxReplies, \* bound: MaxReplies[r] is how many replies to r are read
          RashStop    \* may the manager stop while a session is being set up

ASSUME RelayAssumption == Slots \in Nat \ {0} /\ MaxReplies \in [Requests -> Nat] /\ RashStop \in BOOLEAN

VARIABLES
    handler,   \* handler[s]: handleWebsocket: "new", "mapped", "running"
    sessions,  \* Manager.sessions
    stopping,  \* sessions a stop of the manager has taken and not cleaned up
    served,    \* the sessions whose credential was added by onConnected
    broken,    \* the connections that no longer work
    closed,    \* the sessions whose channel "closed" is closed
    cleaner,   \* cleaner[s]: where the cleanup of s is
    old,       \* old[s]: requests pending when its Range began
    visited,   \* visited[s]: requests it has closed
    held,      \* held[s]: the request it is about to close
    pending,   \* pending[s]: session.pending
    reader,    \* reader[s]: where the reader of s is
    reply,     \* reply[s]: the reply it is dispatching
    pc,        \* pc[r]: where the caller of r is
    home,      \* home[r]: the session it was sent to
    mode,      \* mode[r]: "stream" or "whole" (Stream, NonStream)
    chan,      \* chan[r]: replies in the channel
    shut,      \* the requests whose channel is closed
    waiter,    \* waiter[r]: the goroutine that waits for ctx.Done or s.closed
    cancelled, \* the requests whose context is done
    crashed,   \* a goroutine sent on a closed channel
    read, ended, got, outcome, dropped  \* history: replies found pending, whether the
               \* last one ends, those given, what the caller was told, requests that
               \* a reply was dropped of

session == <<handler, sessions, stopping, served, broken>>
cleaning == <<closed, cleaner, old, visited, held>>
reading == <<reader, reply>>
caller == <<pc, home, mode, waiter, cancelled>>
history == <<read, ended, got, outcome, dropped>>
vars == <<session, cleaning, pending, reading, caller, chan, shut, crashed, history>>

NoRequest == "none"
Kinds == {"part", "end", "fail"}          \* of replies; "http_response" is an "end"
Replies == [n : Nat, kind : Kinds \cup {"lost"}]

Init ==
    /\ handler = [s \in Sessions |-> "new"]
    /\ sessions = {} /\ stopping = {} /\ served = {} /\ broken = {}
    /\ closed = {}
    /\ cleaner = [s \in Sessions |-> "no"]
    /\ old = [s \in Sessions |-> {}]
    /\ visited = [s \in Sessions |-> {}]
    /\ held = [s \in Sessions |-> NoRequest]
    /\ pending = [s \in Sessions |-> {}]
    /\ reader = [s \in Sessions |-> "idle"]
    /\ reply = [s \in Sessions |-> [req |-> NoRequest, msg |-> [n |-> 0, kind |-> "part"]]]
    /\ pc = [r \in Requests |-> "new"]
    /\ home \in [Requests -> Sessions]
    /\ mode \in [Requests -> {"stream", "whole"}]
    /\ chan = [r \in Requests |-> <<>>]
    /\ shut = {}
    /\ waiter = [r \in Requests |-> "none"]
    /\ cancelled = {}
    /\ crashed = FALSE
    /\ read = [r \in Requests |-> 0]
    /\ ended = [r \in Requests |-> FALSE]
    /\ got = [r \in Requests |-> <<>>]
    /\ outcome = [r \in Requests |-> "none"]
    /\ dropped = {}

------------------------------------------------------------------------------
(* Sessions come and go.                                                   *)

\* handleWebsocket enters the session in the map ...
Enter(s) == /\ handler[s] = "new"
            /\ handler' = [handler EXCEPT ![s] = "mapped"]
            /\ sessions' = sessions \cup {s}
            /\ UNCHANGED <<stopping, served, broken, cleaning, pending, reading, caller, chan, shut, crashed, history>>

\* ... calls onConnected, which adds a credential, and starts the reader.
Connected(s) == /\ handler[s] = "mapped"
                /\ handler' = [handler EXCEPT ![s] = "running"]
                /\ served' = served \cup {s}
                /\ UNCHANGED <<sessions, stopping, broken, cleaning, pending, reading, caller, chan, shut, crashed, history>>

\* The client goes away, or sends what is not JSON.
Break(s) == /\ handler[s] # "new" /\ s \notin broken
            /\ broken' = broken \cup {s}
            /\ UNCHANGED <<handler, sessions, stopping, served, cleaning, pending, reading, caller, chan, shut, crashed, history>>

\* bug: the pending requests are looked through and closed is left open
CloseNothing(s) ==
    /\ cleaner[s] = "no"
    /\ cleaner' = [cleaner EXCEPT ![s] = "range"]
    /\ old' = [old EXCEPT ![s] = pending[s]]
    /\ UNCHANGED <<session, closed, visited, held, pending, reading, caller, chan, shut, crashed, history>>

\* cleanup: closed is closed before the pending requests are looked through.
CloseClosed(s) ==
    /\ cleaner[s] = "no"
    /\ closed' = closed \cup {s}
    /\ cleaner' = [cleaner EXCEPT ![s] = "range"]
    /\ old' = [old EXCEPT ![s] = pending[s]]
    /\ UNCHANGED <<session, visited, held, pending, reading, caller, chan, shut, crashed, history>>

\* bug: the reader runs before onConnected has returned
FindBrokenEarly(s) == s \in broken /\ reader[s] = "idle" /\ CloseClosed(s)

\* The reader fails to read or the heartbeat, thirty seconds after the set-up at
\* the earliest, fails to write.
FindBroken(s) == s \in broken /\ handler[s] = "running" /\ reader[s] = "idle" /\ CloseClosed(s)
HeartbeatFails(s) == s \in broken /\ handler[s] = "running" /\ CloseClosed(s)

\* Manager.Stop takes the sessions out of the map, then cleans them up.
Stop == /\ sessions # {}
        /\ RashStop \/ \A s \in Sessions : handler[s] # "mapped"
        /\ stopping' = stopping \cup sessions
        /\ sessions' = {}
        /\ UNCHANGED <<handler, served, broken, cleaning, pending, reading, caller, chan, shut, crashed, history>>

StopSession(s) == s \in stopping /\ CloseClosed(s)

------------------------------------------------------------------------------
(* cleanup, after closed is closed.                                        *)

\* Range comes to a pending request: one of those that were there when it began,
\* or one that came since.
Visit(s) == /\ cleaner[s] = "range" /\ held[s] = NoRequest
            /\ \E r \in pending[s] \ visited[s] : held' = [held EXCEPT ![s] = r]
            /\ UNCHANGED <<session, closed, cleaner, old, visited, pending, reading, caller, chan, shut, crashed, history>>

AlwaysRoomy(r) == Len(chan[r]) <= Slots   \* bug
Roomy(r) == Len(chan[r]) < Slots
Put(r, m) == chan' = [chan EXCEPT ![r] = IF Roomy(r) THEN Append(@, m) ELSE @]
Drop(r) == dropped' = IF Roomy(r) THEN dropped ELSE dropped \cup {r}
Lost == [n |-> 0, kind |-> "lost"]

Crash == crashed' = TRUE /\ UNCHANGED <<session, cleaning, pending, reading, caller, chan, shut, history>>

\* bug: the channel is closed and no error is put in it
CloseSilently(s) ==
    /\ cleaner[s] = "range" /\ held[s] # NoRequest
    /\ shut' = shut \cup {held[s]}
    /\ visited' = [visited EXCEPT ![s] = @ \cup {held[s]}]
    /\ held' = [held EXCEPT ![s] = NoRequest]
    /\ UNCHANGED <<session, closed, cleaner, old, pending, reading, caller, chan, crashed, read, ended, got, outcome, dropped>>

\* It puts an error in the channel if there is room, and closes it.
CloseRequest(s) ==
    /\ cleaner[s] = "range" /\ held[s] # NoRequest
    /\ IF held[s] \in shut
       THEN Crash
       ELSE /\ Put(held[s], Lost)
            /\ Drop(held[s])
            /\ shut' = shut \cup {held[s]}
            /\ visited' = [visited EXCEPT ![s] = @ \cup {held[s]}]
            /\ held' = [held EXCEPT ![s] = NoRequest]
            /\ UNCHANGED <<session, closed, cleaner, old, pending, reading, caller, crashed, read, ended, got, outcome>>

\* The map is replaced by an empty one and the connection closed.
Reset(s) == /\ cleaner[s] = "range" /\ held[s] = NoRequest
            /\ old[s] \cap pending[s] \subseteq visited[s]
            /\ cleaner' = [cleaner EXCEPT ![s] = "unmap"]
            /\ pending' = [pending EXCEPT ![s] = {}]
            /\ broken' = broken \cup {s}
            /\ UNCHANGED <<handler, sessions, stopping, served, closed, old, visited, held, reading, caller, chan, shut, crashed, history>>

\* handleSessionClosed takes the session out of the manager's map ...
Unmap(s) == /\ cleaner[s] = "unmap"
            /\ cleaner' = [cleaner EXCEPT ![s] = "callback"]
            /\ sessions' = sessions \ {s}
            /\ UNCHANGED <<handler, stopping, served, broken, closed, old, visited, held, pending, reading, caller, chan, shut, crashed, history>>

\* ... and calls onDisconnected, which removes the credential.
Disconnected(s) == /\ cleaner[s] = "callback"
                   /\ cleaner' = [cleaner EXCEPT ![s] = "done"]
                   /\ served' = served \ {s}
                   /\ UNCHANGED <<handler, sessions, stopping, broken, closed, old, visited, held, pending, reading, caller, chan, shut, crashed, history>>

------------------------------------------------------------------------------
(* A request: Manager.Send, session.request.                               *)

At(r, p) == pc' = [pc EXCEPT ![r] = p]
Sending == <<session, cleaning, reading, home, mode, crashed, read, ended, got, dropped>>

\* Fails at once when the provider is not connected: that is left out.
Send(r) == /\ pc[r] = "new" /\ home[r] \in sessions
           /\ At(r, "store")
           /\ UNCHANGED <<Sending, pending, waiter, cancelled, chan, shut, outcome>>

Store(r) == /\ pc[r] = "store"
            /\ pending' = [pending EXCEPT ![home[r]] = @ \cup {r}]
            /\ At(r, "load")
            /\ UNCHANGED <<Sending, waiter, cancelled, chan, shut, outcome>>

\* The entry is looked up again.  When the cleanup has replaced the map since,
\* there is none, and asserting its type is a panic of the caller's goroutine.
Load(r) == /\ pc[r] = "load"
           /\ At(r, IF r \in pending[home[r]] THEN "check" ELSE "panicked")
           /\ UNCHANGED <<Sending, pending, waiter, cancelled, chan, shut, outcome>>

\* send: a closed session takes no message.
CheckClosed(r) == /\ pc[r] = "check"
                  /\ At(r, IF home[r] \in closed THEN "drop" ELSE "write")
                  /\ UNCHANGED <<Sending, pending, waiter, cancelled, chan, shut, outcome>>

\* The write may seem to succeed although the connection no longer works.
Write(r) == /\ pc[r] = "write"
            /\ \/ At(r, "wait") /\ waiter' = [waiter EXCEPT ![r] = "armed"]
               \/ home[r] \in broken /\ At(r, "drop") /\ UNCHANGED waiter
            /\ UNCHANGED <<Sending, pending, cancelled, chan, shut, outcome>>

\* LoadAndDelete, and close if there was an entry.
TakeOut(r) == /\ pending' = [pending EXCEPT ![home[r]] = @ \ {r}]
              /\ shut' = IF r \in pending[home[r]] THEN shut \cup {r} ELSE shut

\* request returns the error of send.
Withdraw(r) == /\ pc[r] = "drop"
               /\ TakeOut(r)
               /\ At(r, "over")
               /\ outcome' = [outcome EXCEPT ![r] = "failed"]
               /\ UNCHANGED <<Sending, waiter, cancelled, chan>>

\* The goroutine that waits for the caller to give up, or for the session's end.
GiveUp(r) == /\ waiter[r] = "armed" /\ r \in cancelled
             /\ TakeOut(r)
             /\ waiter' = [waiter EXCEPT ![r] = "gone"]
             /\ UNCHANGED <<Sending, pc, cancelled, chan, outcome>>
\* bug: it waits for the caller alone
StandBy(r) == waiter[r] = "armed" /\ home[r] \in closed /\ UNCHANGED vars
StandDown(r) == /\ waiter[r] = "armed" /\ home[r] \in closed
                /\ waiter' = [waiter EXCEPT ![r] = "gone"]
                /\ UNCHANGED <<Sending, pc, pending, cancelled, chan, shut, outcome>>

\* The client goes away; or the call is over, and its context with it.
Cancel(r) == /\ pc[r] \in {"wait", "over"} /\ r \notin cancelled
             /\ cancelled' = cancelled \cup {r}
             /\ UNCHANGED <<Sending, pc, pending, waiter, chan, shut, outcome>>

------------------------------------------------------------------------------
(* The reader: run, dispatch.                                              *)

Written == {r \in Requests : waiter[r] # "none"}

\* A reply whose request is pending.  Others are ignored.
ReadReply(s, r, kind) ==
    /\ handler[s] = "running" /\ cleaner[s] \in {"no", "range"} /\ reader[s] = "idle"
    /\ r \in Written /\ r \in pending[s]
    /\ read[r] < MaxReplies[r]
    /\ read' = [read EXCEPT ![r] = @ + 1]
    /\ ended' = [ended EXCEPT ![r] = kind # "part"]
    /\ reply' = [reply EXCEPT ![s] = [req |-> r, msg |-> [n |-> read[r] + 1, kind |-> kind]]]
    /\ reader' = [reader EXCEPT ![s] = "put"]
    /\ UNCHANGED <<session, cleaning, pending, caller, chan, shut, crashed, got, outcome, dropped>>

\* It is dropped when the slots are taken.
Dispatch(s) ==
    /\ reader[s] = "put"
    /\ LET r == reply[s].req IN
       IF r \in shut
       THEN Crash
       ELSE /\ Put(r, reply[s].msg)
            /\ Drop(r)
            /\ reader' = [reader EXCEPT ![s] = IF reply[s].msg.kind = "part" THEN "idle" ELSE "remove"]
            /\ UNCHANGED <<session, cleaning, pending, reply, caller, shut, crashed, read, ended, got, outcome>>

\* bug: the reply that ends a request leaves it pending
KeepEnded(s) == /\ reader[s] = "remove"
                /\ reader' = [reader EXCEPT ![s] = "idle"]
                /\ UNCHANGED <<session, cleaning, pending, reply, caller, chan, shut, crashed, history>>

\* The reply that ends the request takes it out.
RemoveEnded(s) == /\ reader[s] = "remove"
                  /\ TakeOut(reply[s].req)
                  /\ reader' = [reader EXCEPT ![s] = "idle"]
                  /\ UNCHANGED <<session, cleaning, reply, caller, chan, crashed, history>>

------------------------------------------------------------------------------
(* The caller: NonStream and Stream take the replies from the channel.     *)

Taking == <<session, cleaning, pending, reading, home, mode, waiter, cancelled, shut, crashed, read, ended, dropped>>
Result(kind) == CASE kind = "part" -> "none" [] kind = "end" -> "complete" [] OTHER -> "failed"

Receive(r) ==
    /\ pc[r] = "wait" /\ chan[r] # <<>>
    /\ LET m == Head(chan[r]) IN
       /\ chan' = [chan EXCEPT ![r] = Tail(@)]
       /\ got' = [got EXCEPT ![r] = IF m.kind = "lost" THEN @ ELSE Append(@, m.n)]
       /\ outcome' = [outcome EXCEPT ![r] = Result(m.kind)]
       /\ At(r, IF m.kind = "part" THEN "wait" ELSE "over")
    /\ UNCHANGED Taking

\* The channel is closed: an error, unless NonStream has had part of a reply,
\* which it takes for all of it.
ReceiveClosed(r) ==
    /\ pc[r] = "wait" /\ chan[r] = <<>> /\ r \in shut
    /\ At(r, "over")
    /\ outcome' = [outcome EXCEPT ![r] =
           IF mode[r] = "whole" /\ got[r] # <<>> THEN "complete" ELSE "failed"]
    /\ UNCHANGED <<Taking, chan, got>>

ReceiveDone(r) == /\ pc[r] = "wait" /\ r \in cancelled
                  /\ At(r, "over")
                  /\ outcome' = [outcome EXCEPT ![r] = "cancelled"]
                  /\ UNCHANGED <<Taking, chan, got>>

------------------------------------------------------------------------------

CleanerStep(s) == Visit(s) \/ CloseRequest(s) \/ Reset(s) \/ Unmap(s) \/ Disconnected(s)
ReaderStep(s) == Dispatch(s) \/ RemoveEnded(s)
SendStep(r) == Store(r) \/ Load(r) \/ CheckClosed(r) \/ Write(r) \/ Withdraw(r)
CallerStep(r) == Receive(r) \/ ReceiveClosed(r) \/ ReceiveDone(r)
WaiterStep(r) == GiveUp(r) \/ StandDown(r)

Next ==
    /\ ~crashed
    /\ \/ \E s \in Sessions : Enter(s) \/ Connected(s) \/ Break(s) \/ FindBroken(s) \/ HeartbeatFails(s)
       \/ Stop
       \/ \E s \in Sessions : StopSession(s) \/ CleanerStep(s) \/ ReaderStep(s)
       \/ \E s \in Sessions, r \in Requests, kind \in Kinds : ReadReply(s, r, kind)
       \/ \E r \in Requests : Send(r) \/ SendStep(r) \/ CallerStep(r) \/ WaiterStep(r) \/ Cancel(r)

\* Goroutines that can run do, and a read of a broken connection fails.
Runs(A) == ~crashed /\ A
Fairness == /\ \A s \in Sessions : /\ WF_vars(Runs(Connected(s))) /\ WF_vars(Runs(FindBroken(s)))
                                   /\ WF_vars(Runs(StopSession(s))) /\ WF_vars(Runs(CleanerStep(s)))
                                   /\ WF_vars(Runs(ReaderStep(s)))
            /\ \A r \in Requests : /\ WF_vars(Runs(SendStep(r))) /\ WF_vars(Runs(CallerStep(r)))
                                   /\ WF_vars(Runs(WaiterStep(r)))

Spec == Init /\ [][Next]_vars /\ Fairness

------------------------------------------------------------------------------
(* Properties.                                                             *)

\* Types; a channel never holds more than its slots.
TypeOK ==
    /\ handler \in [Sessions -> {"new", "mapped", "running"}]
    /\ sessions \subseteq Sessions /\ stopping \subseteq Sessions /\ served \subseteq Sessions
    /\ broken \subseteq Sessions /\ closed \subseteq Sessions
    /\ cleaner \in [Sessions -> {"no", "range", "unmap", "callback", "done"}]
    /\ old \in [Sessions -> SUBSET Requests] /\ visited \in [Sessions -> SUBSET Requests]
    /\ held \in [Sessions -> Requests \cup {NoRequest}]
    /\ pending \in [Sessions -> SUBSET Requests]
    /\ reader \in [Sessions -> {"idle", "put", "remove"}]
    /\ reply \in [Sessions -> [req : Requests \cup {NoRequest}, msg : Replies]]
    /\ pc \in [Requests -> {"new", "store", "load", "check", "write", "drop", "wait", "over", "panicked"}]
    /\ home \in [Requests -> Sessions]
    /\ mode \in [Requests -> {"stream", "whole"}]
    /\ chan \in [Requests -> Seq(Replies)]
    /\ \A r \in Requests : Len(chan[r]) <= Slots
    /\ shut \subseteq Requests /\ cancelled \subseteq Requests /\ dropped \subseteq Requests
    /\ waiter \in [Requests -> {"none", "armed", "gone"}]
    /\ crashed \in BOOLEAN
    /\ read \in [Requests -> Nat] /\ ended \in [Requests -> BOOLEAN]
    /\ got \in [Requests -> Seq(Nat)]
    /\ outcome \in [Requests -> {"none", "complete", "failed", "cancelled"}]

\* Once a session's pending requests have been looked through, no caller waits on
\* a channel that nobody will close any more: not even one that entered its
\* request while they were being looked through.
NoneStranded ==
    \A r \in Requests : pc[r] = "wait" /\ cleaner[home[r]] \in {"unmap", "callback", "done"}
                            => r \in shut

\* When nothing is under way the credentials served are those of the sessions that
\* can be reached.
Settled == /\ \A s \in Sessions : handler[s] # "mapped" /\ cleaner[s] \in {"no", "done"}
           /\ \A s \in stopping : cleaner[s] = "done"
ServedAreConnected == Settled => served = sessions

\* The relay keeps the promise of RelayStream for every request.
Promise == INSTANCE RelayStream WITH
    excused <- [r \in Requests |-> r \in cancelled \/ r \in dropped]
KeepsThePromise == Promise!Spec

\* Whoever waits on a session that is being closed is told, and the goroutine that
\* watches over a call ends with it, unless the program has crashed.
EveryCallEnds == \A r \in Requests :
    /\ (pc[r] = "wait" /\ home[r] \in closed) ~> (pc[r] = "over" \/ crashed)
    /\ (waiter[r] = "armed" /\ (r \in cancelled \/ home[r] \in closed)) ~> (waiter[r] = "gone" \/ crashed)

\* No goroutine sends on a closed channel.  It does: see the README.
NeverCrashes == ~crashed
=============================================================================
