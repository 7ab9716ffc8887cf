--------------------------- MODULE ProcessesProofs ---------------------------
(***************************************************************************)
(* Proofs about Processes, for any number of payments in hand: what the    *)
(* exit of a process leaves behind, and with which code it exits.          *)
(*                                                                         *)
(* The control state of run says which resources are open (Resources), the *)
(* handler of a payment says where its call is (Calls), and the one who    *)
(* closes a resource waited for the others (Drained, PaymentCalls).  The   *)
(* signals are given back, so that one of them kills, by the deferred      *)
(* calls, or after an error was sent (Signals).                            *)
(***************************************************************************)
EXTENDS Processes, TLAPS

\* The steps of the processes, as in Types.
Controls ==
    /\ main \in {"connect", "dial", "arriving", "select", "shutdown", "draining", "hang up",
                 "close", "wait", "exited", "killed"}
    /\ server \in {"none", "serving", "failing", "failed", "closing", "closed"}
    /\ pool \in {"none", "open", "closing", "closed"}
    /\ pmain \in {"connect", "listen", "select", "stopping", "close", "exited", "killed"}

\* The deferred calls of run, and after them.
Ending == {"hang up", "close", "wait", "exited"}

\* run returns with an exit code, and has none before.
Codes ==
    /\ code \in {0, 1, 3}
    /\ main # "killed" => (main \in Ending <=> code # 3)

\* The values of the variables of the payments.
Domains ==
    /\ handler \in [Requests -> {"idle", "accepted", "starting", "calling", "settling", "done"}]
    /\ outcome \in [Requests -> {"none", "ok", "failed"}]
    /\ rpc \in [Requests -> {"none", "sent", "running", "orphan", "ended"}]
    /\ marked \subseteq Requests
    /\ paid \subseteq Requests
    /\ charged \subseteq Requests

\* What run has opened and not closed yet.
Resources ==
    /\ main = "connect" => pool = "none"
    /\ main \in {"dial", "arriving", "select", "shutdown", "draining", "hang up", "close"}
          => pool = "open"
    /\ conn = "open" <=> main \in {"arriving", "select", "shutdown", "draining", "hang up"}
    /\ main \in {"connect", "dial"} =>
          server = "none" /\ \A r \in Requests : handler[r] = "idle"
    /\ main = "draining" => server \in {"closing", "closed"}

\* Where a call is, by the step of its handler, and what is charged.
Calls ==
    \A r \in Requests :
        /\ outcome[r] # "none" <=> rpc[r] \in {"orphan", "ended"}
        /\ handler[r] \in {"idle", "accepted", "starting"} => rpc[r] = "none" /\ r \notin marked
        /\ rpc[r] \in {"sent", "running"} => handler[r] = "calling" /\ conn = "open"
        /\ r \in charged => rpc[r] = "ended"
        /\ outcome[r] = "ok" \/ r \in paid => r \in charged

\* As long as the pool is open a handler ends with its order settled, unless its
\* client left or a statement failed; and as long as the connection is open a
\* call that fails with a charge is one that broke, or that of such a request.
Settled ==
    \A r \in Requests :
        /\ pool = "open" =>
              /\ r \in marked => handler[r] \in {"calling", "settling"} \/ r \in failed
              /\ outcome[r] = "ok" /\ handler[r] = "done" => r \in paid \/ r \in failed
        /\ conn = "open" =>
              /\ rpc[r] = "orphan" => r \in broken \/ r \in failed
              /\ r \in charged => r \in broken \/ r \in failed \/ outcome[r] = "ok"

\* After Shutdown returned because no handler was left, none comes back.
Drained ==
    drained =>
        /\ main \in Ending \cup {"killed"}
        /\ server \in {"closing", "closed", "none"}
        /\ \A r \in Requests :
            /\ ~Active(r)
            /\ r \in marked => r \in failed
            /\ r \in charged => r \in broken \/ r \in failed \/ r \in paid
            /\ rpc[r] = "orphan" => r \in broken \/ r \in failed

\* Whoever gives the signals back before run returns has sent the error first.
Signals ==
    main \in {"arriving", "select", "shutdown", "draining"} =>
        /\ server \in {"failing", "closing", "failed"} => errCh
        /\ ~notify => errCh

\* GracefulStop waits for the calls, and lets none begin; and the signals are
\* given back before it only by a server that has failed.
PaymentCalls ==
    /\ pmain \in {"connect", "listen", "close", "exited"} =>
          \A r \in Requests : rpc[r] \notin {"running", "orphan"}
    /\ pmain \in {"select", "stopping"} /\ ~pnotify => pserver = "failed"

\* run takes the failure from the channel before it sees the context done.
Noticed == noticed => main = "killed" \/ (code = 1 /\ main \in Ending)

\* The invariant.
Inv ==
    /\ Controls /\ Codes /\ Domains /\ Resources /\ Calls /\ Settled
    /\ Drained /\ Signals /\ PaymentCalls /\ Noticed

\* The exit codes are numbers, and 3 stands for none.
LEMMA CodeFacts ==
    0 # 3 /\ 1 # 3 /\ 0 \in {0, 1, 3} /\ 1 \in {0, 1, 3} /\ 3 \in {0, 1, 3}
  OBVIOUS

-----------------------------------------------------------------------------
(* The steps, one lemma for each process.                                  *)

\* What run does keeps the invariant.
LEMMA RunKeeps ==
    ASSUME Inv,
           \/ Connect \/ Dial \/ Select \/ Shutdown \/ Drain \/ TimeOut
           \/ HangUp \/ ClosePool \/ Exit
    PROVE  Inv'
<1>. USE DEF Inv, mainVars, callVars, paymentVars
<1>1. CASE Connect
  <2>. USE <1>1 DEF Connect, newPostgresDeps
  <2>1. Controls'
    BY DEF Controls
  <2>2. Codes'
    BY CodeFacts DEF Controls, Codes, Ending
  <2>3. Resources'
    BY DEF Controls, Resources
  <2>4. Settled'
    BY DEF Controls, Domains, Resources, Calls, Settled
  <2>5. Drained'
    BY DEF Drained, Ending, Controls, Domains, Resources, Calls, Settled, Active
  <2>6. Signals'
    BY DEF Signals, Controls, Resources
  <2>7. Noticed'
    BY CodeFacts DEF Noticed, Ending, Controls, Codes
  <2>8. Domains' /\ Calls' /\ PaymentCalls'
    BY DEF Domains, Calls, PaymentCalls
  <2>. QED
    BY <2>1, <2>2, <2>3, <2>4, <2>5, <2>6, <2>7, <2>8
<1>2. CASE Dial
  <2>. USE <1>2 DEF Dial
  <2>1. Controls'
    BY DEF Controls
  <2>2. Codes'
    BY CodeFacts DEF Controls, Codes, Ending
  <2>3. Resources'
    BY DEF Controls, Resources
  <2>4. Settled'
    BY DEF Controls, Domains, Resources, Calls, Settled
  <2>5. Drained'
    BY DEF Drained, Ending, Controls, Domains, Resources, Calls, Settled, Active
  <2>6. Signals'
    BY DEF Signals, Controls, Resources
  <2>7. Noticed'
    BY CodeFacts DEF Noticed, Ending, Controls, Codes
  <2>8. Domains' /\ Calls' /\ PaymentCalls'
    BY DEF Domains, Calls, PaymentCalls
  <2>. QED
    BY <2>1, <2>2, <2>3, <2>4, <2>5, <2>6, <2>7, <2>8
<1>3. CASE Select
  <2>. USE <1>3 DEF Select
  <2>1. Controls'
    BY DEF Controls
  <2>2. Codes'
    BY CodeFacts DEF Controls, Codes, Ending
  <2>3. Resources'
    BY DEF Controls, Resources
  <2>4. Drained'
    BY DEF Drained, Ending, Controls, Domains, Resources, Calls, Settled, Active
  <2>5. Signals'
    BY DEF Signals, Controls, Resources
  <2>6. Noticed'
    BY CodeFacts DEF Noticed, Ending, Controls, Codes
  <2>7. Domains' /\ Calls' /\ Settled' /\ PaymentCalls'
    BY DEF Domains, Calls, Settled, PaymentCalls
  <2>. QED
    BY <2>1, <2>2, <2>3, <2>4, <2>5, <2>6, <2>7
<1>4. CASE Shutdown
  <2>. USE <1>4 DEF Shutdown
  <2>1. Controls'
    BY DEF Controls
  <2>2. Codes'
    BY CodeFacts DEF Controls, Codes, Ending
  <2>3. Resources'
    BY DEF Controls, Resources
  <2>4. Drained'
    BY DEF Drained, Ending, Controls, Domains, Resources, Calls, Settled, Active
  <2>5. Signals'
    BY DEF Signals, Controls, Resources
  <2>6. Noticed'
    BY CodeFacts DEF Noticed, Ending, Controls, Codes
  <2>7. Domains' /\ Calls' /\ Settled' /\ PaymentCalls'
    BY DEF Domains, Calls, Settled, PaymentCalls
  <2>. QED
    BY <2>1, <2>2, <2>3, <2>4, <2>5, <2>6, <2>7
<1>5. CASE Drain
  <2>. USE <1>5 DEF Drain
  <2>1. Controls'
    BY DEF Controls
  <2>2. Codes'
    BY CodeFacts DEF Controls, Codes, Ending
  <2>3. Resources'
    BY DEF Controls, Resources
  <2>4. Drained'
    BY DEF Drained, Ending, Controls, Domains, Resources, Calls, Settled, Active
  <2>5. Signals'
    BY DEF Signals, Controls, Resources
  <2>6. Noticed'
    BY CodeFacts DEF Noticed, Ending, Controls, Codes
  <2>7. Domains' /\ Calls' /\ Settled' /\ PaymentCalls'
    BY DEF Domains, Calls, Settled, PaymentCalls
  <2>. QED
    BY <2>1, <2>2, <2>3, <2>4, <2>5, <2>6, <2>7
<1>6. CASE TimeOut
  <2>. USE <1>6 DEF TimeOut
  <2>1. Controls'
    BY DEF Controls
  <2>2. Codes'
    BY CodeFacts DEF Controls, Codes, Ending
  <2>3. Resources'
    BY DEF Controls, Resources
  <2>4. Drained'
    BY DEF Drained, Ending, Controls, Domains, Resources, Calls, Settled, Active
  <2>5. Signals'
    BY DEF Signals, Controls, Resources
  <2>6. Noticed'
    BY CodeFacts DEF Noticed, Ending, Controls, Codes
  <2>7. Domains' /\ Calls' /\ Settled' /\ PaymentCalls'
    BY DEF Domains, Calls, Settled, PaymentCalls
  <2>. QED
    BY <2>1, <2>2, <2>3, <2>4, <2>5, <2>6, <2>7
<1>7. CASE HangUp
  <2>. USE <1>7 DEF HangUp, Cancelled, Cut, InFlight
  <2>1. Controls'
    BY DEF Controls
  <2>2. Codes'
    BY CodeFacts DEF Controls, Codes, Ending
  <2>3. Domains'
    BY DEF Domains
  <2>4. Resources'
    BY DEF Controls, Resources
  <2>5. Calls'
    BY DEF Domains, Calls
  <2>6. Settled'
    BY DEF Controls, Domains, Resources, Calls, Settled
  <2>7. Drained'
    BY DEF Drained, Ending, Controls, Domains, Resources, Calls, Settled, Active
  <2>8. Signals'
    BY DEF Signals, Controls, Resources
  <2>9. PaymentCalls'
    BY DEF PaymentCalls, Domains, Controls
  <2>10. Noticed'
    BY CodeFacts DEF Noticed, Ending, Controls, Codes
  <2>. QED
    BY <2>1, <2>2, <2>3, <2>4, <2>5, <2>6, <2>7, <2>8, <2>9, <2>10
<1>8. CASE ClosePool
  <2>. USE <1>8 DEF ClosePool
  <2>1. Controls'
    BY DEF Controls
  <2>2. Codes'
    BY CodeFacts DEF Controls, Codes, Ending
  <2>3. Resources'
    BY DEF Controls, Resources
  <2>4. Settled'
    BY DEF Controls, Domains, Resources, Calls, Settled
  <2>5. Drained'
    BY DEF Drained, Ending, Controls, Domains, Resources, Calls, Settled, Active
  <2>6. Signals'
    BY DEF Signals, Controls, Resources
  <2>7. Noticed'
    BY CodeFacts DEF Noticed, Ending, Controls, Codes
  <2>8. Domains' /\ Calls' /\ PaymentCalls'
    BY DEF Domains, Calls, PaymentCalls
  <2>. QED
    BY <2>1, <2>2, <2>3, <2>4, <2>5, <2>6, <2>7, <2>8
<1>9. CASE Exit
  <2>. USE <1>9 DEF Exit, Forget
  <2>1. Controls'
    BY DEF Controls
  <2>2. Codes'
    BY CodeFacts DEF Controls, Codes, Ending
  <2>3. Domains'
    BY DEF Domains
  <2>4. Resources'
    BY DEF Controls, Resources
  <2>5. Calls'
    BY DEF Controls, Domains, Resources, Calls
  <2>6. Settled'
    BY DEF Controls, Domains, Resources, Calls, Settled
  <2>7. Drained'
    BY DEF Drained, Ending, Controls, Domains, Resources, Calls, Settled, Active
  <2>8. Signals'
    BY DEF Signals, Controls, Resources
  <2>9. Noticed'
    BY CodeFacts DEF Noticed, Ending, Controls, Codes
  <2>10. PaymentCalls'
    BY DEF PaymentCalls
  <2>. QED
    BY <2>1, <2>2, <2>3, <2>4, <2>5, <2>6, <2>7, <2>8, <2>9, <2>10
<1>. QED
  BY <1>1, <1>2, <1>3, <1>4, <1>5, <1>6, <1>7, <1>8, <1>9

\* A signal, one that kills, and the failure of the server keep the invariant.
LEMMA EventsKeep ==
    ASSUME Inv,
           Signal \/ Kill \/ SendError \/ CancelContext
    PROVE  Inv'
<1>. USE DEF Inv, mainVars, callVars, paymentVars
<1>1. CASE Signal
  <2>. USE <1>1 DEF Signal
  <2>1. Controls'
    BY DEF Controls
  <2>2. Codes'
    BY CodeFacts DEF Controls, Codes, Ending
  <2>3. Resources'
    BY DEF Controls, Resources
  <2>4. Drained'
    BY DEF Drained, Ending, Controls, Domains, Resources, Calls, Settled, Active
  <2>5. Signals'
    BY DEF Signals, Controls, Resources
  <2>6. Noticed'
    BY CodeFacts DEF Noticed, Ending, Controls, Codes
  <2>7. Domains' /\ Calls' /\ Settled' /\ PaymentCalls'
    BY DEF Domains, Calls, Settled, PaymentCalls
  <2>. QED
    BY <2>1, <2>2, <2>3, <2>4, <2>5, <2>6, <2>7
<1>2. CASE Kill
  <2>. USE <1>2 DEF Kill, Gone, Forget, Cut, InFlight
  <2>1. Controls'
    BY DEF Controls
  <2>2. Codes'
    BY CodeFacts DEF Controls, Codes, Ending
  <2>3. Domains'
    BY DEF Domains
  <2>4. Resources'
    BY DEF Controls, Resources
  <2>5. Calls'
    BY DEF Domains, Calls
  <2>6. Settled'
    BY DEF Controls, Domains, Resources, Calls, Settled
  <2>7. Drained'
    BY DEF Drained, Ending, Controls, Domains, Resources, Calls, Settled, Active
  <2>8. Signals'
    BY DEF Signals, Controls, Resources
  <2>9. PaymentCalls'
    BY DEF PaymentCalls, Domains, Controls
  <2>10. Noticed'
    BY CodeFacts DEF Noticed, Ending, Controls, Codes
  <2>. QED
    BY <2>1, <2>2, <2>3, <2>4, <2>5, <2>6, <2>7, <2>8, <2>9, <2>10
<1>3. CASE SendError
  <2>. USE <1>3 DEF SendError, Gone
  <2>1. Controls'
    BY DEF Controls
  <2>2. Codes'
    BY CodeFacts DEF Controls, Codes, Ending
  <2>3. Resources'
    BY DEF Controls, Resources
  <2>4. Drained'
    BY DEF Drained, Ending, Controls, Domains, Resources, Calls, Settled, Active
  <2>5. Signals'
    BY DEF Signals, Controls, Resources
  <2>6. Noticed'
    BY CodeFacts DEF Noticed, Ending, Controls, Codes
  <2>7. Domains' /\ Calls' /\ Settled' /\ PaymentCalls'
    BY DEF Domains, Calls, Settled, PaymentCalls
  <2>. QED
    BY <2>1, <2>2, <2>3, <2>4, <2>5, <2>6, <2>7
<1>4. CASE CancelContext
  <2>. USE <1>4 DEF CancelContext, Cancelled, Gone
  <2>1. Controls'
    BY DEF Controls
  <2>2. Resources'
    BY DEF Controls, Resources
  <2>3. Drained'
    BY DEF Drained, Ending, Controls, Domains, Resources, Calls, Settled, Active
  <2>4. Signals'
    BY DEF Signals, Controls, Resources
  <2>5. Codes' /\ Noticed'
    BY DEF Codes, Noticed, Ending
  <2>6. Domains' /\ Calls' /\ Settled' /\ PaymentCalls'
    BY DEF Domains, Calls, Settled, PaymentCalls
  <2>. QED
    BY <2>1, <2>2, <2>3, <2>4, <2>5, <2>6
<1>. QED
  BY <1>1, <1>2, <1>3, <1>4

\* The handler of a payment, and its client, keep the invariant.
LEMMA HandlerKeeps ==
    ASSUME Inv, NEW r \in Requests,
           \/ Accept(r) \/ Begin(r) \/ StartPayment(r) \/ Called(r) \/ Settle(r)
           \/ StatementFails(r) \/ ClientLeaves(r)
    PROVE  Inv'
<1>. USE DEF Inv, mainVars, callVars, paymentVars
<1>1. CASE Accept(r)
  <2>. USE <1>1 DEF Accept, Goto, Gone
  <2>1. Domains'
    BY DEF Domains
  <2>2. Resources'
    BY DEF Controls, Resources
  <2>3. Calls'
    BY DEF Domains, Calls
  <2>4. Settled'
    BY DEF Controls, Domains, Resources, Calls, Settled
  <2>5. Drained'
    BY DEF Drained, Ending, Controls, Domains, Resources, Calls, Settled, Active
  <2>6. Signals'
    BY DEF Signals, Controls, Resources
  <2>7. PaymentCalls'
    BY DEF PaymentCalls, Domains, Controls
  <2>8. Codes' /\ Noticed'
    BY DEF Codes, Noticed, Ending
  <2>9. Controls'
    BY DEF Controls
  <2>. QED
    BY <2>1, <2>2, <2>3, <2>4, <2>5, <2>6, <2>7, <2>8, <2>9
<1>2. CASE Begin(r)
  <2>. USE <1>2 DEF Begin, Goto, Gone, Acquires
  <2>1. Domains'
    BY DEF Domains
  <2>2. Resources'
    BY DEF Controls, Resources
  <2>3. Calls'
    BY DEF Domains, Calls
  <2>4. Settled'
    BY DEF Controls, Domains, Resources, Calls, Settled
  <2>5. Drained'
    BY DEF Drained, Ending, Controls, Domains, Resources, Calls, Settled, Active
  <2>6. Signals'
    BY DEF Signals, Controls, Resources
  <2>7. PaymentCalls'
    BY DEF PaymentCalls, Domains, Controls
  <2>8. Codes' /\ Noticed'
    BY DEF Codes, Noticed, Ending
  <2>9. Controls'
    BY DEF Controls
  <2>. QED
    BY <2>1, <2>2, <2>3, <2>4, <2>5, <2>6, <2>7, <2>8, <2>9
<1>3. CASE StartPayment(r)
  <2>. USE <1>3 DEF StartPayment, Goto, Gone
  <2>1. Domains'
    BY DEF Domains
  <2>2. Resources'
    BY DEF Controls, Resources
  <2>3. Calls'
    BY DEF Domains, Calls
  <2>4. Settled'
    BY DEF Controls, Domains, Resources, Calls, Settled
  <2>5. Drained'
    BY DEF Drained, Ending, Controls, Domains, Resources, Calls, Settled, Active
  <2>6. Signals'
    BY DEF Signals, Controls, Resources
  <2>7. PaymentCalls'
    BY DEF PaymentCalls, Domains, Controls
  <2>8. Codes' /\ Noticed'
    BY DEF Codes, Noticed, Ending
  <2>9. Controls'
    BY DEF Controls
  <2>. QED
    BY <2>1, <2>2, <2>3, <2>4, <2>5, <2>6, <2>7, <2>8, <2>9
<1>4. CASE Called(r)
  <2>. USE <1>4 DEF Called, Goto, Gone, Acquires
  <2>1. Domains'
    BY DEF Domains
  <2>2. Resources'
    BY DEF Controls, Resources
  <2>3. Calls'
    BY DEF Domains, Calls
  <2>4. Settled'
    BY DEF Controls, Domains, Resources, Calls, Settled
  <2>5. Drained'
    BY DEF Drained, Ending, Controls, Domains, Resources, Calls, Settled, Active
  <2>6. Signals'
    BY DEF Signals, Controls, Resources
  <2>7. PaymentCalls'
    BY DEF PaymentCalls, Domains, Controls
  <2>8. Codes' /\ Noticed'
    BY DEF Codes, Noticed, Ending
  <2>9. Controls'
    BY DEF Controls
  <2>. QED
    BY <2>1, <2>2, <2>3, <2>4, <2>5, <2>6, <2>7, <2>8, <2>9
<1>5. CASE Settle(r)
  <2>. USE <1>5 DEF Settle, TakeMarkOff, Goto, Gone
  <2>1. Domains'
    BY DEF Domains
  <2>2. Resources'
    BY DEF Controls, Resources
  <2>3. Calls'
    BY DEF Domains, Calls
  <2>4. Settled'
    BY DEF Controls, Domains, Resources, Calls, Settled
  <2>5. Drained'
    BY DEF Drained, Ending, Controls, Domains, Resources, Calls, Settled, Active
  <2>6. Signals'
    BY DEF Signals, Controls, Resources
  <2>7. PaymentCalls'
    BY DEF PaymentCalls, Domains, Controls
  <2>8. Codes' /\ Noticed'
    BY DEF Codes, Noticed, Ending
  <2>9. Controls'
    BY DEF Controls
  <2>. QED
    BY <2>1, <2>2, <2>3, <2>4, <2>5, <2>6, <2>7, <2>8, <2>9
<1>6. CASE StatementFails(r)
  <2>. USE <1>6 DEF StatementFails, TakeMarkOff, Goto, Gone
  <2>1. Domains'
    BY DEF Domains
  <2>2. Resources'
    BY DEF Controls, Resources
  <2>3. Calls'
    BY DEF Domains, Calls
  <2>4. Settled'
    BY DEF Controls, Domains, Resources, Calls, Settled
  <2>5. Drained'
    BY DEF Drained, Ending, Controls, Domains, Resources, Calls, Settled, Active
  <2>6. Signals'
    BY DEF Signals, Controls, Resources
  <2>7. PaymentCalls'
    BY DEF PaymentCalls, Domains, Controls
  <2>8. Codes' /\ Noticed'
    BY DEF Codes, Noticed, Ending
  <2>9. Controls'
    BY DEF Controls
  <2>. QED
    BY <2>1, <2>2, <2>3, <2>4, <2>5, <2>6, <2>7, <2>8, <2>9
<1>7. CASE ClientLeaves(r)
  <2>. USE <1>7 DEF ClientLeaves, Cut, InFlight, Gone
  <2>1. Domains'
    BY DEF Domains
  <2>2. Calls'
    BY DEF Domains, Calls
  <2>3. Settled'
    BY DEF Controls, Domains, Resources, Calls, Settled
  <2>4. Drained'
    BY DEF Drained, Ending, Controls, Domains, Resources, Calls, Settled, Active
  <2>5. PaymentCalls'
    BY DEF PaymentCalls, Domains, Controls
  <2>6. Codes' /\ Noticed'
    BY DEF Codes, Noticed, Ending
  <2>7. Controls' /\ Resources' /\ Signals'
    BY DEF Controls, Resources, Signals
  <2>. QED
    BY <2>1, <2>2, <2>3, <2>4, <2>5, <2>6, <2>7
<1>. QED
  BY <1>1, <1>2, <1>3, <1>4, <1>5, <1>6, <1>7

\* The calls keep the invariant.
LEMMA CallsKeep ==
    ASSUME Inv, NEW r \in Requests,
           Serve(r) \/ Refuse(r) \/ Charge(r) \/ ChargeFails(r) \/ OrphanEnds(r)
    PROVE  Inv'
<1>. USE DEF Inv, mainVars, callVars, paymentVars
<1>1. CASE Serve(r)
  <2>. USE <1>1 DEF Serve, Serving
  <2>1. Domains'
    BY DEF Domains
  <2>2. Calls'
    BY DEF Domains, Calls
  <2>3. Settled'
    BY DEF Controls, Domains, Resources, Calls, Settled
  <2>4. Drained'
    BY DEF Drained, Ending, Controls, Domains, Resources, Calls, Settled, Active
  <2>5. PaymentCalls'
    BY DEF PaymentCalls, Domains, Controls
  <2>6. Codes' /\ Noticed'
    BY DEF Codes, Noticed, Ending
  <2>7. Controls' /\ Resources' /\ Signals'
    BY DEF Controls, Resources, Signals
  <2>. QED
    BY <2>1, <2>2, <2>3, <2>4, <2>5, <2>6, <2>7
<1>2. CASE Refuse(r)
  <2>1. /\ rpc[r] = "sent"
        /\ outcome' = [outcome EXCEPT ![r] = "failed"]
        /\ rpc' = [rpc EXCEPT ![r] = "ended"]
        /\ UNCHANGED <<handler, marked, paid, charged, broken, failed, mainVars, paymentVars>>
    <3>1. rpc[r] = "sent" /\ Cut({r})
      BY <1>2 DEF Refuse
    <3>2. outcome' = [outcome EXCEPT ![r] = "failed"]
      BY <3>1 DEF Cut, Domains
    <3>3. rpc' = [rpc EXCEPT ![r] = "ended"]
      BY <3>1 DEF Cut, Domains
    <3>. QED
      BY <1>2, <3>1, <3>2, <3>3 DEF Refuse
  <2>. USE <2>1
  <2>2. Domains'
    BY DEF Domains
  <2>3. Calls'
    BY DEF Domains, Calls
  <2>4. Settled'
    BY DEF Controls, Domains, Resources, Calls, Settled
  <2>5. Drained'
    BY DEF Drained, Ending, Controls, Domains, Resources, Calls, Settled, Active
  <2>6. PaymentCalls'
    BY DEF PaymentCalls, Domains, Controls
  <2>7. Codes' /\ Noticed'
    BY DEF Codes, Noticed, Ending
  <2>8. Controls' /\ Resources' /\ Signals'
    BY DEF Controls, Resources, Signals
  <2>. QED
    BY <2>2, <2>3, <2>4, <2>5, <2>6, <2>7, <2>8
<1>3. CASE Charge(r)
  <2>. USE <1>3 DEF Charge, Answer
  <2>1. Domains'
    BY DEF Domains
  <2>2. Calls'
    BY DEF Domains, Calls
  <2>3. Settled'
    BY DEF Controls, Domains, Resources, Calls, Settled
  <2>4. Drained'
    BY DEF Drained, Ending, Controls, Domains, Resources, Calls, Settled, Active
  <2>5. PaymentCalls'
    BY DEF PaymentCalls, Domains, Controls
  <2>6. Codes' /\ Noticed'
    BY DEF Codes, Noticed, Ending
  <2>7. Controls' /\ Resources' /\ Signals'
    BY DEF Controls, Resources, Signals
  <2>. QED
    BY <2>1, <2>2, <2>3, <2>4, <2>5, <2>6, <2>7
<1>4. CASE ChargeFails(r)
  <2>. USE <1>4 DEF ChargeFails, Answer
  <2>1. Domains'
    BY DEF Domains
  <2>2. Calls'
    BY DEF Domains, Calls
  <2>3. Settled'
    BY DEF Controls, Domains, Resources, Calls, Settled
  <2>4. Drained'
    BY DEF Drained, Ending, Controls, Domains, Resources, Calls, Settled, Active
  <2>5. PaymentCalls'
    BY DEF PaymentCalls, Domains, Controls
  <2>6. Codes' /\ Noticed'
    BY DEF Codes, Noticed, Ending
  <2>7. Controls' /\ Resources' /\ Signals'
    BY DEF Controls, Resources, Signals
  <2>. QED
    BY <2>1, <2>2, <2>3, <2>4, <2>5, <2>6, <2>7
<1>5. CASE OrphanEnds(r)
  <2>1. /\ rpc[r] = "orphan"
        /\ rpc' = [rpc EXCEPT ![r] = "ended"]
        /\ \A q \in Requests : q \in charged => q \in charged'
        /\ \A q \in Requests : q \in charged' => q \in charged \/ q = r
        /\ charged' \subseteq Requests
        /\ UNCHANGED <<handler, marked, paid, outcome, broken, failed, mainVars, paymentVars>>
    BY <1>5 DEF OrphanEnds, Domains
  <2>. USE <2>1
  <2>2. Domains'
    BY DEF Domains
  <2>3. Calls'
    BY DEF Domains, Calls
  <2>4. Settled'
    BY DEF Controls, Domains, Resources, Calls, Settled
  <2>5. Drained'
    BY DEF Drained, Ending, Controls, Domains, Resources, Calls, Settled, Active
  <2>6. PaymentCalls'
    BY DEF PaymentCalls, Domains, Controls
  <2>7. Codes' /\ Noticed'
    BY DEF Codes, Noticed, Ending
  <2>8. Controls' /\ Resources' /\ Signals'
    BY DEF Controls, Resources, Signals
  <2>. QED
    BY <2>2, <2>3, <2>4, <2>5, <2>6, <2>7, <2>8
<1>. QED
  BY <1>1, <1>2, <1>3, <1>4, <1>5

\* The end of the connection keeps the invariant: the calls under way fail, and
\* PaymentService may still execute those that it has begun.
LEMMA DisconnectKeeps ==
    ASSUME Inv, Disconnect
    PROVE  Inv'
<1>. USE DEF Inv, mainVars, callVars, paymentVars, Disconnect, Cut, InFlight
<1>1. Domains'
  BY DEF Domains
<1>2. Calls'
  BY DEF Domains, Calls
<1>3. Settled'
  BY DEF Controls, Domains, Resources, Calls, Settled
<1>4. Drained'
  BY DEF Drained, Ending, Controls, Domains, Resources, Calls, Settled, Active
<1>5. PaymentCalls'
  BY DEF PaymentCalls, Domains, Controls
<1>6. Codes' /\ Noticed'
  BY DEF Codes, Noticed, Ending
<1>7. Controls' /\ Resources' /\ Signals'
  BY DEF Controls, Resources, Signals
<1>. QED
  BY <1>1, <1>2, <1>3, <1>4, <1>5, <1>6, <1>7

\* So does the death of PaymentService.
LEMMA PaymentKillKeeps ==
    ASSUME Inv, PaymentKill
    PROVE  Inv'
<1>. USE DEF Inv, mainVars, callVars, paymentVars, PaymentKill, PaymentGone, Cut, InFlight
<1>1. Controls'
  BY DEF Controls
<1>2. Domains'
  BY DEF Domains
<1>3. Calls'
  BY DEF Domains, Calls
<1>4. Settled'
  BY DEF Controls, Domains, Resources, Calls, Settled
<1>5. Drained'
  BY DEF Drained, Ending, Controls, Domains, Resources, Calls, Settled, Active
<1>6. PaymentCalls'
  BY DEF PaymentCalls, Domains, Controls
<1>7. Codes' /\ Noticed'
  BY DEF Codes, Noticed, Ending
<1>8. Resources' /\ Signals'
  BY DEF Resources, Signals
<1>. QED
  BY <1>1, <1>2, <1>3, <1>4, <1>5, <1>6, <1>7, <1>8

\* What the gRPC server does keeps the invariant: of its state the order service
\* knows nothing.
LEMMA PaymentKeeps ==
    ASSUME Inv,
           \/ PaymentConnect \/ PaymentListen \/ PaymentSignal \/ PaymentServeFails
           \/ Stopped \/ PaymentExit
    PROVE  Inv'
<1>. USE DEF Inv, mainVars, callVars
<1>1. /\ UNCHANGED <<main, code, notify, ctxDone, errCh, server, conn, pool, drained, noticed>>
      /\ UNCHANGED <<handler, marked, paid, outcome, rpc, charged, broken, failed>>
  BY DEF PaymentConnect, PaymentListen, PaymentSignal, PaymentServeFails, GracefulStop,
         Stopped, PaymentExit
<1>2. Codes' /\ Domains' /\ Resources' /\ Calls' /\ Settled'
  BY <1>1 DEF Codes, Ending, Domains, Resources, Calls, Settled
<1>3. Drained' /\ Signals' /\ Noticed'
  BY <1>1 DEF Drained, Ending, Active, Signals, Noticed
<1>4. Controls'
  BY <1>1
     DEF PaymentConnect, PaymentListen, PaymentSignal, PaymentServeFails, GracefulStop,
         Stopped, PaymentExit, Controls
<1>5. PaymentCalls'
  <2>1. CASE PaymentConnect
    BY <1>1, <2>1 DEF PaymentConnect, newPostgresDeps, PaymentCalls, Controls
  <2>2. CASE PaymentListen
    BY <1>1, <2>2 DEF PaymentListen, PaymentCalls, Controls
  <2>3. CASE PaymentSignal
    BY <1>1, <2>3 DEF PaymentSignal, GracefulStop, PaymentCalls
  <2>4. CASE PaymentServeFails
    BY <1>1, <2>4 DEF PaymentServeFails, GracefulStop, PaymentCalls
  <2>5. CASE Stopped
    BY <1>1, <2>5 DEF Stopped, PaymentCalls, Controls
  <2>6. CASE PaymentExit
    BY <1>1, <2>6 DEF PaymentExit, PaymentCalls, Controls
  <2>. QED
    BY <2>1, <2>2, <2>3, <2>4, <2>5, <2>6
<1>. QED
  BY <1>2, <1>3, <1>4, <1>5

-----------------------------------------------------------------------------
(* The theorems.                                                           *)

\* No process runs at the start.
LEMMA InitInv == Init => Inv
  BY CodeFacts
     DEF Init, Inv, Controls, Codes, Ending, Domains, Resources, Calls, Settled, Drained,
         Signals, PaymentCalls, Noticed

\* Every step keeps the invariant.
LEMMA NextInv == Inv /\ [Next]_vars => Inv'
<1>. SUFFICES ASSUME Inv, [Next]_vars PROVE Inv'
  OBVIOUS
<1>1. CASE UNCHANGED vars
  <2>. USE <1>1 DEF vars, mainVars, callVars, paymentVars, Inv
  <2>1. Controls' /\ Domains'
    BY DEF Controls, Domains
  <2>2. Resources' /\ Calls' /\ Settled'
    BY DEF Resources, Calls, Settled
  <2>3. Drained' /\ PaymentCalls' /\ Noticed'
    BY DEF Drained, PaymentCalls, Noticed, Active, Ending
  <2>4. Codes'
    BY Zenon DEF Codes, Ending
  <2>5. Signals'
    BY DEF Signals
  <2>. QED
    BY <2>1, <2>2, <2>3, <2>4, <2>5
<1>2. CASE Run \/ Signal \/ Kill \/ SendError \/ CancelContext
  BY <1>2, RunKeeps, EventsKeep DEF Run
<1>3. CASE PaymentRun \/ PaymentSignal \/ PaymentServeFails
  BY <1>3, PaymentKeeps DEF PaymentRun
<1>4. CASE Disconnect \/ PaymentKill
  BY <1>4, DisconnectKeeps, PaymentKillKeeps
<1>5. ASSUME NEW r \in Requests,
             \/ Accept(r) \/ HandlerStep(r) \/ ClientLeaves(r)
             \/ Serve(r) \/ Refuse(r) \/ Charge(r) \/ ChargeFails(r) \/ OrphanEnds(r)
      PROVE  Inv'
  BY <1>5, HandlerKeeps, CallsKeep DEF HandlerStep
<1>. QED
  BY <1>1, <1>2, <1>3, <1>4, <1>5 DEF Next

\* The invariant holds in every state.
THEOREM InvHolds == Spec => []Inv
<1>. QED
  BY InitInv, NextInv, PTL DEF Spec

\* run returns with an exit code, and a call has an outcome exactly when its
\* server is through with it (order/cmd/main.go:53-154).
THEOREM ProcessTypesHold == Spec => []Types
<1>1. Inv => Types
  <2>1. Controls /\ Codes /\ Domains /\ Calls =>
           \A r \in Requests :
              /\ handler[r] \in {"idle", "accepted", "starting", "calling", "settling", "done"}
              /\ outcome[r] # "none" <=> rpc[r] \in {"orphan", "ended"}
    BY DEF Domains, Calls
  <2>. QED
    BY <2>1, Zenon DEF Inv, Controls, Codes, Ending, Types
<1>. QED
  BY <1>1, InvHolds, PTL

\* A Shutdown that ended in time leaves nothing half done, but for the requests
\* whose client went away, of which a statement failed, or whose call broke
\* (order/cmd/main.go:144-152, order/internal/service/order/pay.go:38-60).
THEOREM DrainedHolds == Spec => []DrainedMeansDone
<1>1. Inv => DrainedMeansDone
  BY DEF Inv, Domains, Calls, Drained, DrainedMeansDone, Gone
<1>. QED
  BY <1>1, InvHolds, PTL

\* A failure of the server that run waits for is its exit code, unless a signal
\* kills the process first (order/cmd/main.go:124-140).
THEOREM FailureHolds == Spec => []FailureIsReported
<1>1. Inv => FailureIsReported
  BY DEF Inv, Noticed, Ending, FailureIsReported, Gone
<1>. QED
  BY <1>1, InvHolds, PTL

-----------------------------------------------------------------------------
(* The end of a process.                                                   *)

\* The order service ends in one of three steps.
LEMMA EndOfOrder ==
    ASSUME [Next]_vars, ~Gone, Gone'
    PROVE  Connect \/ Exit \/ Kill
<1>. USE DEF Gone
<1>1. CASE UNCHANGED vars
  BY <1>1 DEF vars, mainVars
<1>2. CASE Run \/ Signal \/ SendError \/ CancelContext
  BY <1>2 DEF Run, Dial, Select, Shutdown, Drain, TimeOut, HangUp, ClosePool, Signal,
              SendError, CancelContext
<1>3. CASE PaymentRun \/ PaymentSignal \/ PaymentServeFails \/ Disconnect \/ PaymentKill
  BY <1>3 DEF PaymentRun, PaymentConnect, PaymentListen, Stopped, PaymentExit, PaymentSignal,
              PaymentServeFails, Disconnect, PaymentKill, mainVars
<1>4. ASSUME NEW r \in Requests,
             \/ Accept(r) \/ HandlerStep(r) \/ ClientLeaves(r)
             \/ Serve(r) \/ Refuse(r) \/ Charge(r) \/ ChargeFails(r) \/ OrphanEnds(r)
      PROVE  FALSE
  BY <1>4 DEF Accept, HandlerStep, Begin, StartPayment, Called, Settle, StatementFails,
              ClientLeaves, Serve, Refuse, Charge, ChargeFails, Answer, OrphanEnds, mainVars
<1>. QED
  BY <1>1, <1>2, <1>3, <1>4 DEF Next

\* So does the gRPC server.
LEMMA EndOfPayment ==
    ASSUME [Next]_vars, ~PaymentGone, PaymentGone'
    PROVE  PaymentConnect \/ PaymentExit \/ PaymentKill
<1>. USE DEF PaymentGone
<1>1. CASE UNCHANGED vars
  BY <1>1 DEF vars, paymentVars
<1>2. CASE Run \/ Signal \/ SendError \/ CancelContext \/ Kill
  BY <1>2 DEF Run, Connect, Dial, Select, Shutdown, Drain, TimeOut, HangUp, ClosePool, Exit,
              Signal, SendError, CancelContext, Kill, paymentVars
<1>3. CASE PaymentRun \/ PaymentSignal \/ PaymentServeFails \/ Disconnect
  BY <1>3 DEF PaymentRun, PaymentListen, Stopped, PaymentSignal, PaymentServeFails,
              GracefulStop, Disconnect, paymentVars
<1>4. ASSUME NEW r \in Requests,
             \/ Accept(r) \/ HandlerStep(r) \/ ClientLeaves(r)
             \/ Serve(r) \/ Refuse(r) \/ Charge(r) \/ ChargeFails(r) \/ OrphanEnds(r)
      PROVE  FALSE
  BY <1>4 DEF Accept, HandlerStep, Begin, StartPayment, Called, Settle, StatementFails,
              ClientLeaves, Serve, Refuse, Charge, ChargeFails, Answer, OrphanEnds, paymentVars
<1>. QED
  BY <1>1, <1>2, <1>3, <1>4 DEF Next

\* No process exits by itself with a transaction under way or a pool left open,
\* and a signal kills none that serves or drains, unless its server has failed
\* (order/cmd/main.go:53-154, payment/cmd/main.go:48-106).
THEOREM ExitsHold == Spec => ExitsBetweenTransactions
<1>1. Inv /\ [Next]_vars => [EndsBetweenTransactions]_vars
  <2>. SUFFICES ASSUME Inv, [Next]_vars PROVE EndsBetweenTransactions
    OBVIOUS
  <2>1. ASSUME ~Gone, main' = "exited"
        PROVE  pool' # "open" /\ \A r \in Requests : ~InTransaction(r)
    <3>1. Connect \/ Exit
      BY <2>1, EndOfOrder DEF Gone, Kill
    <3>2. CASE Connect
      BY <2>1, <3>2 DEF Connect, newPostgresDeps, Inv, Controls, Resources, InTransaction
    <3>3. CASE Exit
      BY <3>3 DEF Exit
    <3>. QED
      BY <3>1, <3>2, <3>3
  <2>2. ASSUME ~Gone, main' = "killed", NEW q \in Requests, Active(q)
        PROVE  code # 3 \/ errCh
    <3>1. Kill
      BY <2>2, EndOfOrder DEF Gone, Connect, Exit
    <3>. QED
      BY <2>2, <3>1
         DEF Kill, Gone, Active, Inv, Controls, Codes, Ending, Resources, Signals
  <2>3. ASSUME ~PaymentGone, pmain' = "exited"
        PROVE  ppool' # "open" /\ \A r \in Requests : rpc[r] \notin {"running", "orphan"}
    <3>1. PaymentConnect \/ PaymentExit
      BY <2>3, EndOfPayment DEF PaymentGone, PaymentKill
    <3>. QED
      BY <2>3, <3>1
         DEF PaymentConnect, PaymentExit, newPostgresDeps, Inv, Controls, PaymentCalls
  <2>4. ASSUME ~PaymentGone, pmain' = "killed", NEW q \in Requests, rpc[q] = "running"
        PROVE  pserver = "failed"
    <3>1. PaymentKill
      BY <2>4, EndOfPayment DEF PaymentGone, PaymentConnect, PaymentExit
    <3>. QED
      BY <2>4, <3>1 DEF PaymentKill, PaymentGone, Inv, Controls, PaymentCalls
  <2>. QED
    BY <2>1, <2>2, <2>3, <2>4 DEF EndsBetweenTransactions
<1>. QED
  BY <1>1, InvHolds, PTL DEF Spec, ExitsBetweenTransactions
==============================================================================
