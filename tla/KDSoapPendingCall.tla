--------------------------- MODULE KDSoapPendingCall ---------------------------
(***************************************************************************)
(* One HTTP exchange of the client and the objects that share it: the      *)
(* QNetworkReply, the QBuffer the request is sent from, the                *)
(* KDSoapPendingCall handles with their shared Private and at most one     *)
(* KDSoapPendingCallWatcher (src/src/KDSoapClient/KDSoapPendingCall.cpp,   *)
(* KDSoapPendingCallWatcher.cpp, KDSoapAuthentication.cpp).                *)
(*                                                                         *)
(* QNetworkReply is external; it is modelled by what the code relies on:   *)
(* it may ask for credentials, it finishes once and emits finished() then, *)
(* abort() finishes a running reply as canceled and does nothing to a      *)
(* finished one.  What a response contains is left out, except what        *)
(* parseReply() tells apart.                                               *)
(***************************************************************************)
EXTENDS Naturals

CONSTANTS
    Calls,          \* the calls an application makes on one interface
    Responses,      \* the responses servers give
    MaxHandles      \* KDSoapPendingCall objects for one call at a time

(* A response has an HTTP error or not, and a body: a "fault" is one the   *)
(* server sent, or the reader's own for a body that is not a SOAP envelope.*)
AllResponses == [error: {"none", "failed"}, data: {"empty", "message", "fault"}]

ASSUME CallAssumption ==
    /\ Responses \subseteq AllResponses
    /\ MaxHandles \in Nat

VARIABLES
    reply,      \* reply[c]: the QNetworkReply
    pending,    \* pending[c]: KDSoapPendingCall::Private, its owners, its buffer
    fate        \* fate[c]: how the reply ended, kept by the model

callVars == <<reply, pending, fate>>

Reply ==
    [state: {"none", "running", "challenged", "finished", "deleted"},
     error: {"none", "canceled", "refused", "failed"},
     data: {"empty", "message", "fault"},
     timedOut: BOOLEAN,
     authAdded: BOOLEAN]

Outcomes == {"empty", "message", "fault", "timeout", "canceled", "refused", "failed"}

Pending ==
    [buffer: {"none", "open", "freed"},
     handles: Nat,
     watcher: {"none", "connected", "late"},
     notified: 0..2,
     message: Outcomes \cup {"unparsed"}]

NoReply == [state |-> "none", error |-> "none", data |-> "empty", timedOut |-> FALSE, authAdded |-> FALSE]
NoPending == [buffer |-> "none", handles |-> 0, watcher |-> "none", notified |-> 0, message |-> "unparsed"]

CallTypeOK ==
    /\ reply \in [Calls -> Reply]
    /\ pending \in [Calls -> Pending]
    /\ fate \in [Calls -> Outcomes \cup {"unknown"}]

CallInit ==
    /\ reply = [c \in Calls |-> NoReply]
    /\ pending = [c \in Calls |-> NoPending]
    /\ fate = [c \in Calls |-> "unknown"]

Unfinished(c) == reply[c].state \in {"running", "challenged"}
Owned(p) == p.handles > 0 \/ p.watcher # "none"

(* post(): the reply runs, the request is read from the buffer.           *)
DeletedReply == [NoReply EXCEPT !.state = "deleted"]
postedReply == [NoReply EXCEPT !.state = "running"]
openBuffer == [NoPending EXCEPT !.buffer = "open"]

---------------------------------------------------------------------------
(* Mutant: a reply marked by the timer counts as timed out.               *)
OutcomeByMark(r) ==
    CASE r.data = "fault" -> "fault"
      [] r.error = "none" -> r.data
      [] r.timedOut -> "timeout"
      [] OTHER -> r.error

(* The message parseReply() makes of a finished reply: an HTTP error does  *)
(* not hide a fault.                                                       *)
Outcome(r) ==
    CASE r.data = "fault" -> "fault"
      [] r.error = "none" -> r.data
      [] r.error = "canceled" /\ r.timedOut -> "timeout"
      [] OTHER -> r.error

(* returnMessage(), returnHeaders(), returnValue(): parsed at most once,   *)
(* not before the reply has finished (the caller gets an empty message).   *)
parseReply(c) ==
    /\ pending[c].message = "unparsed"
    /\ reply[c].state = "finished"
    /\ pending' = [pending EXCEPT ![c].message = Outcome(reply[c])]
    /\ UNCHANGED <<reply, fate>>

---------------------------------------------------------------------------
(* The reply ends as r; finished() is emitted to the watcher that had      *)
(* connected to it.                                                        *)
finish(c, r) ==
    /\ reply' = [reply EXCEPT ![c] = [r EXCEPT !.state = "finished"]]
    /\ fate' = [fate EXCEPT ![c] = Outcome(r)]
    /\ pending' =
        IF pending[c].watcher = "connected"
        THEN [pending EXCEPT ![c].notified = @ + 1]
        ELSE pending

(* callNoReply(): finished() deletes the reply and the buffer.            *)
finishUnwatched(c, r) ==
    /\ reply' = [reply EXCEPT ![c] = DeletedReply]
    /\ fate' = [fate EXCEPT ![c] = Outcome(r)]
    /\ pending' = [pending EXCEPT ![c].buffer = "freed"]

(* What a reply ends as: an answer of any kind, ...                       *)
Answers(c) ==
    IF reply[c].state # "running" THEN {}
    ELSE {[reply[c] EXCEPT !.error = a.error, !.data = a.data] : a \in Responses}

(* ... or the server wants credentials, ...                               *)
challenge(c) ==
    /\ reply[c].state = "running"
    /\ reply' = [reply EXCEPT ![c].state = "challenged"]
    /\ UNCHANGED <<pending, fate>>

(* Mutant: offered at each challenge.                                     *)
OffersAuthAlways(c, hasAuth) == hasAuth

(* ... which handleAuthenticationRequired() gives it once per reply, ...   *)
OffersAuth(c, hasAuth) == hasAuth /\ ~ reply[c].authAdded

addAuth(c, hasAuth) ==
    /\ reply[c].state = "challenged"
    /\ OffersAuth(c, hasAuth)
    /\ reply' = [reply EXCEPT ![c].state = "running", ![c].authAdded = TRUE]
    /\ UNCHANGED <<pending, fate>>

(* ... after which the reply ends as refused.                             *)
Refusals(c, hasAuth) ==
    IF reply[c].state = "challenged" /\ ~ OffersAuth(c, hasAuth)
    THEN {[reply[c] EXCEPT !.error = "refused", !.data = a.data] : a \in Responses}
    ELSE {}

(* replyTimeout(): marks the reply, then abort().                         *)
Expired(c) == [reply[c] EXCEPT !.timedOut = TRUE, !.error = "canceled", !.data = "empty"]

expireFinished(c) ==
    /\ reply[c].state = "finished"
    /\ ~ reply[c].timedOut
    /\ reply' = [reply EXCEPT ![c].timedOut = TRUE]
    /\ UNCHANGED <<pending, fate>>

---------------------------------------------------------------------------
(* Another KDSoapPendingCall object refers to the call, or a watcher does: *)
(* it hears of a reply that has not finished yet.                          *)
copy(c) ==
    /\ pending[c].handles \in 1..(MaxHandles - 1)
    /\ pending' = [pending EXCEPT ![c].handles = @ + 1]
    /\ UNCHANGED <<reply, fate>>

watch(c) ==
    /\ pending[c].handles > 0
    /\ pending[c].watcher = "none"
    /\ reply[c].state # "deleted"
    /\ pending' = [pending EXCEPT ![c].watcher = IF Unfinished(c) THEN "connected" ELSE "late"]
    /\ UNCHANGED <<reply, fate>>

(* Mutant: abort() emits finished() to a watcher being destroyed.         *)
destroyNoisily(c, p) ==
    /\ reply' = [reply EXCEPT ![c] = DeletedReply]
    /\ pending' = [pending EXCEPT ![c] =
        [p EXCEPT !.buffer = "freed",
                  !.message = "unparsed",
                  !.notified = IF pending[c].watcher = "connected" /\ Unfinished(c) THEN @ + 1 ELSE @]]

(* ~Private(): disconnects finished(), aborts, deletes reply and buffer.  *)
destroyPrivate(c, p) ==
    /\ reply' = [reply EXCEPT ![c] = DeletedReply]
    /\ pending' = [pending EXCEPT ![c] = [p EXCEPT !.buffer = "freed", !.message = "unparsed"]]

(* Mutant: every owner destroys what the owners share.                    *)
leaveAsLast(c, p) == destroyPrivate(c, p) /\ UNCHANGED fate

(* An owner goes away and leaves p: the last one takes the reply along.   *)
leave(c, p) ==
    /\ IF Owned(p)
       THEN pending' = [pending EXCEPT ![c] = p] /\ UNCHANGED reply
       ELSE destroyPrivate(c, p)
    /\ UNCHANGED fate

(* Mutant: an object assigned to gives up its old call twice.             *)
dropHandleTwice(c) ==
    /\ pending[c].handles > 0
    /\ leave(c, [pending[c] EXCEPT !.handles = @ - 2])

dropHandle(c) ==
    /\ pending[c].handles > 0
    /\ leave(c, [pending[c] EXCEPT !.handles = @ - 1])

dropWatcher(c) ==
    /\ pending[c].watcher # "none"
    /\ leave(c, [pending[c] EXCEPT !.watcher = "none"])
=============================================================================
