------------------------------ MODULE Processes ------------------------------
(***************************************************************************)
(* How the processes start and stop: the order service, with the payments  *)
(* that it has in hand, and one gRPC server behind it.  That server is     *)
(* PaymentService; InventoryService starts and stops with the same code.   *)
(*                                                                         *)
(* Of a payment this module keeps the three things that a stop can come    *)
(* between: the statement that marks the order, the call, and the          *)
(* statement that settles it.  Each of them may fail, with its effect or   *)
(* without; statements that are executed late are in OrderService.         *)
(***************************************************************************)
EXTENDS Naturals

CONSTANT Requests

VARIABLES
    main,      \* where run of the order service is
    code,      \* the exit code that its return makes; 3 before it returns
    notify,    \* signals are notified to run; otherwise they kill
    ctxDone,   \* its context is done: a signal came, or cancel was called
    errCh,     \* serverErrCh holds an error
    server,    \* the goroutine of ListenAndServe
    conn,      \* the connection to PaymentService
    pool,      \* its pool of database connections
    drained,   \* Shutdown returned because no handler was left
    noticed    \* the server failed while run was waiting in its select

mainVars == <<main, code, notify, ctxDone, errCh, server, conn, pool, drained, noticed>>

VARIABLES
    handler,   \* handler[r]: where the handler of payment r is
    marked,    \* the orders in PAYMENT_PROCESSING
    paid,      \* the orders that are PAID
    outcome,   \* outcome[r]: what its payment call returned
    rpc,       \* rpc[r]: its call, as PaymentService sees it
    charged,   \* the payments on record
    broken,    \* the calls that failed though they may have been charged,
               \* other than by the end of the order service
    failed     \* the requests whose client went away, or of which a statement
               \* failed

callVars == <<handler, marked, paid, outcome, rpc, charged, broken, failed>>

VARIABLES
    pmain, pnotify, pserver, ppool   \* the same of the gRPC server

paymentVars == <<pmain, pnotify, pserver, ppool>>

vars == <<mainVars, callVars, paymentVars>>

Init ==
    /\ main = "connect" /\ code = 3 /\ server = "none" /\ conn = "none" /\ pool = "none"
    /\ notify = FALSE /\ ctxDone = FALSE /\ errCh = FALSE /\ drained = FALSE /\ noticed = FALSE
    /\ handler = [r \in Requests |-> "idle"]
    /\ outcome = [r \in Requests |-> "none"]
    /\ rpc = [r \in Requests |-> "none"]
    /\ marked = {} /\ paid = {} /\ charged = {} /\ broken = {} /\ failed = {}
    /\ pmain = "connect" /\ pnotify = FALSE /\ pserver = "none" /\ ppool = "none"

\* The order service is no more; PaymentService is no more.
Gone == main \in {"exited", "killed"}

PaymentGone == pmain \in {"exited", "killed"}

\* What a process has in memory is lost with it: goroutines, channel and context,
\* and the handlers, wherever they are.
Forget ==
    /\ server' = "none"
    /\ notify' = FALSE
    /\ ctxDone' = FALSE
    /\ errCh' = FALSE
    /\ handler' = [r \in Requests |-> "done"]

-----------------------------------------------------------------------------
(* The calls under way, and their end with the connection.                 *)

\* Wrong: PaymentService goes on with a call that is over.
CutForClient(calls) ==
    /\ outcome' = [r \in Requests |-> IF r \in calls THEN "failed" ELSE outcome[r]]
    /\ UNCHANGED rpc

\* The connection ends under these calls: they fail, and the context of those
\* that PaymentService has begun is cancelled.
Cut(calls) ==
    /\ outcome' = [r \in Requests |-> IF r \in calls THEN "failed" ELSE outcome[r]]
    /\ rpc' = [r \in Requests |->
                  IF r \notin calls THEN rpc[r]
                  ELSE IF rpc[r] = "running" THEN "orphan" ELSE "ended"]

InFlight == {r \in Requests : rpc[r] \in {"sent", "running"}}

-----------------------------------------------------------------------------
(* The order service: start.                                               *)

\* newPostgresDeps: the pool, or one that is closed again because the database
\* does not answer.
newPostgresDeps(p, ok) == p' = IF ok THEN "open" ELSE "closed"

Connect ==
    /\ main = "connect"
    /\ \E ok \in BOOLEAN :
        /\ newPostgresDeps(pool, ok)
        /\ main' = IF ok THEN "dial" ELSE "exited"
        /\ code' = IF ok THEN code ELSE 1
    /\ UNCHANGED <<notify, ctxDone, errCh, server, conn, drained, noticed, callVars, paymentVars>>

\* With the connections made, NotifyContext takes the signals.
Dial ==
    /\ main = "dial"
    /\ \/ /\ main' = "arriving" /\ conn' = "open" /\ server' = "serving" /\ notify' = TRUE
          /\ UNCHANGED code
       \/ main' = "close" /\ code' = 1 /\ UNCHANGED <<conn, server, notify>>
    /\ UNCHANGED <<ctxDone, errCh, pool, drained, noticed, callVars, paymentVars>>

\* Later signals change nothing, as long as they are notified: nobody waits for
\* the context any more.
Signal ==
    /\ main \in {"arriving", "select"}
    /\ notify
    /\ ctxDone' = TRUE
    /\ main' = IF main = "select" THEN "shutdown" ELSE main
    /\ UNCHANGED <<code, notify, errCh, server, conn, pool, drained, noticed>>
    /\ UNCHANGED <<callVars, paymentVars>>

\* Before NotifyContext, and again after its cancel, a signal kills the process,
\* and with it its handlers, connections and calls.
Kill ==
    /\ ~Gone
    /\ ~notify
    /\ main' = "killed"
    /\ code' = 3
    /\ conn' = "closed"
    /\ pool' = "none"
    /\ Forget
    /\ Cut(InFlight)
    /\ UNCHANGED <<drained, noticed, marked, paid, charged, broken, failed, paymentVars>>

-----------------------------------------------------------------------------
(* The order service: the server fails, run waits.                         *)

\* Wrong: the context is cancelled, then the error is sent.
CancelAndSend ==
    /\ server = "serving"
    /\ server' = "failed"
    /\ ctxDone' = TRUE
    /\ notify' = FALSE
    /\ errCh' = TRUE
    /\ noticed' = (main = "select")
    /\ main' = IF main = "select" THEN "shutdown" ELSE main
    /\ UNCHANGED <<code, conn, pool, drained, callVars, paymentVars>>

\* Wrong: nobody is told.
FailQuietly ==
    /\ server = "serving"
    /\ server' = "failed"
    /\ UNCHANGED <<main, code, notify, ctxDone, errCh, conn, pool, drained, noticed>>
    /\ UNCHANGED <<callVars, paymentVars>>

\* The error goes to run, if that is waiting, and into the channel otherwise.
SendError ==
    /\ ~Gone
    /\ server = "serving"
    /\ server' = "failing"
    /\ IF main = "select"
       THEN main' = "hang up" /\ code' = 1 /\ noticed' = TRUE /\ UNCHANGED errCh
       ELSE errCh' = TRUE /\ UNCHANGED <<main, code, noticed>>
    /\ UNCHANGED <<notify, ctxDone, conn, pool, drained, callVars, paymentVars>>

\* The server when its goroutine has called cancel.
Cancelled ==
    CASE server = "failing" -> "failed"
      [] server = "closing" -> "closed"
      [] OTHER              -> server

\* cancel is the stop function of NotifyContext: it gives the signals back, too.
CancelContext ==
    /\ ~Gone
    /\ server \in {"failing", "closing"}
    /\ server' = Cancelled
    /\ ctxDone' = TRUE
    /\ notify' = FALSE
    /\ UNCHANGED <<main, code, errCh, conn, pool, drained, noticed, callVars, paymentVars>>

\* The select: of two cases that are ready either is taken.
Select ==
    /\ main = "arriving"
    /\ \/ ctxDone /\ main' = "shutdown" /\ UNCHANGED <<code, errCh>>
       \/ errCh /\ main' = "hang up" /\ code' = 1 /\ errCh' = FALSE
       \/ ~ctxDone /\ ~errCh /\ main' = "select" /\ UNCHANGED <<code, errCh>>
    /\ UNCHANGED <<notify, ctxDone, server, conn, pool, drained, noticed, callVars, paymentVars>>

-----------------------------------------------------------------------------
(* The order service: stop.                                                *)

Active(r) == handler[r] \notin {"idle", "done"}

InTransaction(r) == handler[r] \in {"starting", "settling"}

\* Wrong: stop is called first, so that a second signal kills.
ShutdownAfterStop ==
    /\ main = "shutdown"
    /\ main' = "draining"
    /\ server' = IF server = "failing" THEN "closing" ELSE "closed"
    /\ notify' = FALSE
    /\ UNCHANGED <<code, ctxDone, errCh, conn, pool, drained, noticed, callVars, paymentVars>>

\* No request is taken from here on.  A goroutine whose server had failed before
\* has still to cancel the context.
Shutdown ==
    /\ main = "shutdown"
    /\ main' = "draining"
    /\ server' = IF server = "failing" THEN "closing" ELSE "closed"
    /\ UNCHANGED <<code, notify, ctxDone, errCh, conn, pool, drained, noticed>>
    /\ UNCHANGED <<callVars, paymentVars>>

\* Wrong: Close in place of Shutdown.
CloseServer ==
    /\ main = "draining"
    /\ main' = "hang up"
    /\ code' = 0
    /\ drained' = TRUE
    /\ UNCHANGED <<notify, ctxDone, errCh, server, conn, pool, noticed, callVars, paymentVars>>

Drain ==
    /\ main = "draining"
    /\ \A r \in Requests : ~Active(r)
    /\ main' = "hang up"
    /\ code' = 0
    /\ drained' = TRUE
    /\ UNCHANGED <<notify, ctxDone, errCh, server, conn, pool, noticed, callVars, paymentVars>>

\* shutdownTimeout: the error is logged, and run returns none.
TimeOut ==
    /\ main = "draining"
    /\ \E r \in Requests : Active(r)
    /\ main' = "hang up"
    /\ code' = 0
    /\ UNCHANGED <<notify, ctxDone, errCh, server, conn, pool, drained, noticed>>
    /\ UNCHANGED <<callVars, paymentVars>>

\* The deferred calls: cancel, which gives the signals back, then the
\* connections, the pool last.  A goroutine that still has to call cancel does
\* nothing by that any more.
HangUp ==
    /\ main = "hang up"
    /\ main' = "close"
    /\ ctxDone' = TRUE
    /\ notify' = FALSE
    /\ server' = Cancelled
    /\ conn' = "closed"
    /\ Cut(InFlight)
    /\ UNCHANGED <<code, errCh, pool, drained, noticed>>
    /\ UNCHANGED <<handler, marked, paid, charged, broken, failed, paymentVars>>

\* The pool gives out no connection any more.
ClosePool ==
    /\ main = "close"
    /\ main' = "wait"
    /\ pool' = "closing"
    /\ UNCHANGED <<code, notify, ctxDone, errCh, server, conn, drained, noticed>>
    /\ UNCHANGED <<callVars, paymentVars>>

\* It waits for those that are in use; then the process ends, with every handler
\* that is still there.
Exit ==
    /\ main = "wait"
    /\ \A r \in Requests : ~InTransaction(r)
    /\ main' = "exited"
    /\ pool' = "closed"
    /\ Forget
    /\ UNCHANGED <<code, conn, drained, noticed>>
    /\ UNCHANGED <<marked, paid, outcome, rpc, charged, broken, failed, paymentVars>>

Run ==
    \/ Connect \/ Dial \/ Select \/ Shutdown \/ Drain \/ TimeOut \/ HangUp \/ ClosePool \/ Exit

-----------------------------------------------------------------------------
(* The handler of a payment.                                               *)

Goto(r, label) ==
    /\ ~Gone
    /\ handler' = [handler EXCEPT ![r] = label]

\* A server that failed takes no new connection, but serves those it has.
Accept(r) ==
    /\ handler[r] = "idle"
    /\ \/ server = "serving"
       \/ server \in {"failing", "failed"} /\ \E q \in Requests : handler[q] # "idle"
    /\ Goto(r, "accepted")
    /\ UNCHANGED <<marked, paid, outcome, rpc, charged, broken, failed, mainVars, paymentVars>>

\* The pool gives no connection to a request whose client went away, and none
\* to anybody once it closes.
Acquires(r) == pool = "open" /\ r \notin failed

Begin(r) ==
    /\ handler[r] = "accepted"
    /\ Goto(r, IF Acquires(r) THEN "starting" ELSE "done")
    /\ UNCHANGED <<marked, paid, outcome, rpc, charged, broken, failed, mainVars, paymentVars>>

\* The order is marked, and the call goes out.
StartPayment(r) ==
    /\ handler[r] = "starting"
    /\ Goto(r, "calling")
    /\ marked' = marked \cup {r}
    /\ IF conn = "open" /\ r \notin failed
       THEN rpc' = [rpc EXCEPT ![r] = "sent"] /\ UNCHANGED outcome
       ELSE outcome' = [outcome EXCEPT ![r] = "failed"] /\ rpc' = [rpc EXCEPT ![r] = "ended"]
    /\ UNCHANGED <<paid, charged, broken, failed, mainVars, paymentVars>>

\* Without a connection from the pool the order stays marked.
Called(r) ==
    /\ handler[r] = "calling"
    /\ outcome[r] # "none"
    /\ Goto(r, IF Acquires(r) THEN "settling" ELSE "done")
    /\ UNCHANGED <<marked, paid, outcome, rpc, charged, broken, failed, mainVars, paymentVars>>

\* FinishPayment or ResetPayment.
TakeMarkOff(r) ==
    /\ marked' = marked \ {r}
    /\ paid' = IF outcome[r] = "ok" THEN paid \cup {r} ELSE paid

Settle(r) ==
    /\ handler[r] = "settling"
    /\ Goto(r, "done")
    /\ TakeMarkOff(r)
    /\ UNCHANGED <<outcome, rpc, charged, broken, failed, mainVars, paymentVars>>

\* A statement fails, or is cancelled because the client went away: it took
\* effect or not, and the handler ends with an error.
StatementFails(r) ==
    /\ \/ /\ handler[r] = "starting"
          /\ marked' \in {marked, marked \cup {r}}
          /\ UNCHANGED paid
       \/ /\ handler[r] = "settling"
          /\ TakeMarkOff(r) \/ UNCHANGED <<marked, paid>>
    /\ Goto(r, "done")
    /\ failed' = failed \cup {r}
    /\ UNCHANGED <<outcome, rpc, charged, broken, mainVars, paymentVars>>

HandlerStep(r) == Begin(r) \/ StartPayment(r) \/ Called(r) \/ Settle(r) \/ StatementFails(r)

\* The HTTP client goes away: the context of the request is done, and with it
\* the payment call.
ClientLeaves(r) ==
    /\ ~Gone
    /\ Active(r)
    /\ failed' = failed \cup {r}
    /\ Cut({r} \cap InFlight)
    /\ UNCHANGED <<handler, marked, paid, charged, broken, mainVars, paymentVars>>

-----------------------------------------------------------------------------
(* The gRPC server: its calls.                                             *)

Serving == pmain = "select"

Serve(r) ==
    /\ rpc[r] = "sent"
    /\ Serving
    /\ rpc' = [rpc EXCEPT ![r] = "running"]
    /\ UNCHANGED <<handler, marked, paid, outcome, charged, broken, failed, mainVars, paymentVars>>

Refuse(r) ==
    /\ rpc[r] = "sent"
    /\ ~Serving
    /\ Cut({r})
    /\ UNCHANGED <<handler, marked, paid, charged, broken, failed, mainVars, paymentVars>>

\* A call may take any time: nothing bounds it but the age of its connection.
Answer(r, code_) ==
    /\ rpc[r] = "running"
    /\ rpc' = [rpc EXCEPT ![r] = "ended"]
    /\ outcome' = [outcome EXCEPT ![r] = code_]
    /\ UNCHANGED <<handler, marked, paid, failed, mainVars, paymentVars>>

Charge(r) ==
    /\ Answer(r, "ok")
    /\ charged' = charged \cup {r}
    /\ UNCHANGED broken

\* The INSERT fails, or the acknowledgement of its COMMIT is lost.
ChargeFails(r) ==
    /\ Answer(r, "failed")
    /\ \/ UNCHANGED <<charged, broken>>
       \/ charged' = charged \cup {r} /\ broken' = broken \cup {r}

\* The statement of a cancelled call is executed or not.
OrphanEnds(r) ==
    /\ rpc[r] = "orphan"
    /\ rpc' = [rpc EXCEPT ![r] = "ended"]
    /\ charged' \in {charged, charged \cup {r}}
    /\ UNCHANGED <<handler, marked, paid, outcome, broken, failed, mainVars, paymentVars>>

\* MaxConnectionAge and its grace, or too many pings: the server closes the
\* connection, and the client makes another one for the calls to come.
Disconnect ==
    /\ conn = "open"
    /\ InFlight # {}
    /\ Cut(InFlight)
    /\ broken' = broken \cup InFlight
    /\ UNCHANGED <<handler, marked, paid, charged, failed, mainVars, paymentVars>>

-----------------------------------------------------------------------------
(* The gRPC server: start and stop.                                        *)

PaymentConnect ==
    /\ pmain = "connect"
    /\ \E ok \in BOOLEAN :
        /\ newPostgresDeps(ppool, ok)
        /\ pmain' = IF ok THEN "listen" ELSE "exited"
    /\ UNCHANGED <<pnotify, pserver, mainVars, callVars>>

PaymentListen ==
    /\ pmain = "listen"
    /\ \/ pmain' = "select" /\ pserver' = "serving" /\ pnotify' = TRUE
       \/ pmain' = "close" /\ UNCHANGED <<pserver, pnotify>>
    /\ UNCHANGED <<ppool, mainVars, callVars>>

\* The context is done: run goes on to GracefulStop, after which no call begins.
GracefulStop ==
    /\ pmain = "select"
    /\ pmain' = "stopping"

\* As Signal.
PaymentSignal ==
    /\ pnotify
    /\ GracefulStop
    /\ UNCHANGED <<pnotify, pserver, ppool, mainVars, callVars>>

\* As Kill: of the calls that had begun the statement is executed or not.
PaymentKill ==
    /\ ~PaymentGone
    /\ ~pnotify
    /\ pmain' = "killed"
    /\ ppool' = "none"
    /\ pserver' = "none"
    /\ Cut(InFlight)
    /\ broken' = broken \cup InFlight
    /\ UNCHANGED pnotify
    /\ UNCHANGED <<handler, marked, paid, charged, failed, mainVars>>

\* Wrong: the context is not cancelled.
ServeReturns ==
    /\ pmain = "select"
    /\ pserver = "serving"
    /\ pserver' = "failed"
    /\ UNCHANGED <<pmain, pnotify, ppool, mainVars, callVars>>

\* Serve fails, and cancel gives the signals back: from here on one kills.
PaymentServeFails ==
    /\ pserver = "serving"
    /\ GracefulStop
    /\ pserver' = "failed"
    /\ pnotify' = FALSE
    /\ UNCHANGED <<ppool, mainVars, callVars>>

\* GracefulStop waits for its calls, with no time limit, and for Serve; then
\* comes the deferred cancel.
Stopped ==
    /\ pmain = "stopping"
    /\ \A r \in Requests : rpc[r] \notin {"running", "orphan"}
    /\ pmain' = "close"
    /\ pserver' = "none"
    /\ pnotify' = FALSE
    /\ UNCHANGED <<ppool, mainVars, callVars>>

PaymentExit ==
    /\ pmain = "close"
    /\ pmain' = "exited"
    /\ ppool' = "closed"
    /\ UNCHANGED <<pnotify, pserver, mainVars, callVars>>

PaymentRun == PaymentConnect \/ PaymentListen \/ Stopped \/ PaymentExit

-----------------------------------------------------------------------------
Next ==
    \/ Run \/ Signal \/ Kill \/ SendError \/ CancelContext
    \/ PaymentRun \/ PaymentSignal \/ PaymentKill \/ PaymentServeFails \/ Disconnect
    \/ \E r \in Requests :
        \/ Accept(r) \/ HandlerStep(r) \/ ClientLeaves(r)
        \/ Serve(r) \/ Refuse(r) \/ Charge(r) \/ ChargeFails(r) \/ OrphanEnds(r)

\* The processes and handlers run, statements end, and the timers go off.  No
\* call has to end by itself, no signal has to come.
Fairness ==
    /\ WF_vars(Run) /\ WF_vars(CancelContext) /\ WF_vars(PaymentRun) /\ WF_vars(Disconnect)
    /\ \A r \in Requests :
        WF_vars(HandlerStep(r)) /\ WF_vars(Serve(r) \/ Refuse(r) \/ OrphanEnds(r))

Spec == Init /\ [][Next]_vars /\ Fairness

-----------------------------------------------------------------------------
\* What the control states go with: a call has an outcome exactly when
\* PaymentService is through with it or will not be heard, and run does not
\* return without an exit code.
Types ==
    /\ main \in {"connect", "dial", "arriving", "select", "shutdown", "draining", "hang up",
                 "close", "wait", "exited", "killed"}
    /\ code \in {0, 1, 3}
    /\ main # "killed" => (main \in {"hang up", "close", "wait", "exited"} <=> code # 3)
    /\ server \in {"none", "serving", "failing", "failed", "closing", "closed"}
    /\ pool \in {"none", "open", "closing", "closed"}
    /\ \A r \in Requests :
        /\ handler[r] \in {"idle", "accepted", "starting", "calling", "settling", "done"}
        /\ outcome[r] # "none" <=> rpc[r] \in {"orphan", "ended"}
    /\ pmain \in {"connect", "listen", "select", "stopping", "close", "exited", "killed"}

\* After a Shutdown that ended in time, whatever happened to PaymentService
\* meanwhile: every accepted request ran to its end; an order is left in
\* PAYMENT_PROCESSING only if its client went away or one of its statements
\* failed; an order that is PAID was charged; and a charge whose order is not
\* PAID is that of such a request, too, or of a call that failed after it may
\* have been charged.
DrainedMeansDone ==
    drained =>
        /\ \A r \in Requests : ~Active(r)
        /\ marked \subseteq failed
        /\ paid \subseteq charged
        /\ charged \ paid \subseteq broken \cup failed

\* However run comes to its end by itself, after a signal, the timeout of
\* Shutdown, the error of its server or one at the start, no statement is under
\* way and no pool left open when the process exits; and PaymentService exits
\* with no call in hand.  A signal kills a process that has work in hand only
\* when its server has failed, or when run is already in its deferred calls: as
\* long as it serves, and while it drains, no signal does.
EndsBetweenTransactions ==
    /\ ~Gone /\ main' = "exited" =>
        /\ pool' # "open"
        /\ \A r \in Requests : ~InTransaction(r)
    /\ ~Gone /\ main' = "killed" /\ (\E r \in Requests : Active(r)) =>
        code # 3 \/ errCh
    /\ ~PaymentGone /\ pmain' = "exited" =>
        /\ ppool' # "open"
        /\ \A r \in Requests : rpc[r] \notin {"running", "orphan"}
    /\ ~PaymentGone /\ pmain' = "killed" /\ (\E r \in Requests : rpc[r] = "running") =>
        pserver = "failed"

ExitsBetweenTransactions == [][EndsBetweenTransactions]_vars

\* A server that fails while run waits makes the process exit with code 1,
\* because the goroutine sends the error before it cancels the context that run
\* waits for, too; unless another signal kills the process on its way there.
FailureIsReported == Gone /\ noticed => main = "killed" \/ code = 1

\* The order service ends after a signal and after its server failed, even when
\* PaymentService never answers a call.
OrderStops == (ctxDone \/ server \in {"failing", "failed"}) ~> Gone

\* So does the gRPC server: GracefulStop has no time limit, but the connections
\* that it waits for have.
PaymentStops == (pmain = "stopping" \/ pserver = "failed") ~> PaymentGone
=============================================================================
