------------------------ MODULE PaymentServiceProofs ------------------------
(***************************************************************************)
(* Proofs about PaymentService, for any callers, orders, methods and       *)
(* transactions, and whatever fails.                                       *)
(*                                                                         *)
(* A row and an answer are tied by the UUID drawn for them: no other row   *)
(* has it, and the call that drew it has ended.                            *)
(***************************************************************************)
EXTENDS PaymentService, FiniteSetTheorems, TLAPS

\* The call c drew the UUID of the row p.
Drew(c, p) ==
    /\ calls[c].state \in {"OK", "Internal"}
    /\ calls[c].transaction = p.transaction_uuid
    /\ calls[c].order = p.order_uuid

\* A UUID is drawn once: no two rows have it, and no two answers.
TransactionsAreUnique ==
    /\ \A p, q \in payments :
          p.transaction_uuid = q.transaction_uuid => p = q
    /\ \A c, d \in Requests :
          calls[c].state = "OK" /\ calls[d].state = "OK" /\ c # d
             => calls[c].transaction # calls[d].transaction

\* Every row is that of a call that ended.
RowsHaveCalls == \A p \in payments : \E c \in Requests : Drew(c, p)

PaymentInvariant ==
    PaymentTypeOK /\ AnsweredIsRecorded /\ TransactionsAreUnique /\ RowsHaveCalls

-----------------------------------------------------------------------------
(* What one step does.                                                     *)

\* The server keeps the types of its table and of its answers.
LEMMA ServeTypes ==
    ASSUME PaymentTypeOK, NEW c \in Requests, ServeCall(c)
    PROVE  PaymentTypeOK'
<1>1. \A t \in Transactions : IsValid(c) => PaymentOf(c, t) \in Payment
  BY DEF IsValid, isValidPaymentMethod, PaymentOf, Payment
<1>2. ASSUME NEW state \in CallStates, NEW t \in Transactions \cup {Null},
             Answer(c, state, t)
      PROVE  calls' \in [Requests -> Call]
  <2>. DEFINE d == [calls[c] EXCEPT !.state = state, !.transaction = t]
  <2>1. d \in Call
    BY DEF Call, PaymentTypeOK
  <2>2. calls' = [calls EXCEPT ![c] = d]
    BY <1>2 DEF Answer, PaymentTypeOK, Call
  <2>. HIDE DEF d
  <2>. QED
    BY <2>1, <2>2 DEF PaymentTypeOK
<1>3. CASE RejectCall(c)
  BY <1>2, <1>3 DEF RejectCall, CallStates, PaymentTypeOK
<1>4. ASSUME NEW t \in Transactions, PayOrder(c, t) PROVE PaymentTypeOK'
  BY <1>1, <1>2, <1>4 DEF PayOrder, CallStates, PaymentTypeOK
<1>5. ASSUME NEW t \in Transactions, CommitUnknown(c, t) PROVE PaymentTypeOK'
  BY <1>1, <1>2, <1>5 DEF CommitUnknown, CallStates, PaymentTypeOK
<1>6. CASE InsertFails(c)
  BY <1>2, <1>6 DEF InsertFails, CallStates, PaymentTypeOK
<1>. QED
  BY <1>3, <1>4, <1>5, <1>6 DEF ServeCall

\* What the server does answers one call that was sent, OK only with its row;
\* and it adds no row, or the row of this call, with a UUID of its own.
LEMMA ServeFacts ==
    ASSUME PaymentTypeOK, NEW c \in Requests, ServeCall(c)
    PROVE  /\ calls[c].state = "sent"
           /\ \A d \in Requests : d # c => calls'[d] = calls[d]
           /\ calls'[c].state \in {"OK", "InvalidArgument", "Internal"}
           /\ calls'[c].order = calls[c].order
           /\ calls'[c].method = calls[c].method
           /\ \/ UNCHANGED payments /\ calls'[c].state # "OK"
              \/ /\ calls'[c].state \in {"OK", "Internal"}
                 /\ NewRandom(calls'[c].transaction)
                 /\ payments' = payments \cup {PaymentOf(c, calls'[c].transaction)}
<1>1. ASSUME NEW state, NEW t, Answer(c, state, t)
      PROVE  /\ \A d \in Requests : d # c => calls'[d] = calls[d]
             /\ calls'[c].state = state
             /\ calls'[c].transaction = t
             /\ calls'[c].order = calls[c].order
             /\ calls'[c].method = calls[c].method
  <2>. DEFINE answered == [calls[c] EXCEPT !.state = state, !.transaction = t]
  <2>1. calls[c] \in Call
    BY DEF PaymentTypeOK
  <2>2. /\ answered.state = state
        /\ answered.transaction = t
        /\ answered.order = calls[c].order
        /\ answered.method = calls[c].method
    BY <2>1 DEF Call
  <2>3. calls' = [calls EXCEPT ![c] = answered]
    BY <1>1, <2>1 DEF Answer, PaymentTypeOK, Call
  <2>. HIDE DEF answered
  <2>. QED
    BY <2>2, <2>3 DEF PaymentTypeOK
<1>2. CASE RejectCall(c) \/ InsertFails(c)
  BY <1>1, <1>2 DEF RejectCall, InsertFails
<1>3. ASSUME NEW t \in Transactions, PayOrder(c, t) \/ CommitUnknown(c, t)
      PROVE  /\ calls[c].state = "sent"
             /\ Answer(c, "OK", t) \/ Answer(c, "Internal", t)
             /\ NewRandom(t)
             /\ payments' = payments \cup {PaymentOf(c, t)}
  BY <1>3 DEF PayOrder, CommitUnknown
<1>4. ASSUME NEW t \in Transactions, PayOrder(c, t) \/ CommitUnknown(c, t)
      PROVE  /\ calls'[c].state \in {"OK", "Internal"} /\ calls'[c].transaction = t
             /\ \A d \in Requests : d # c => calls'[d] = calls[d]
             /\ calls'[c].order = calls[c].order
             /\ calls'[c].method = calls[c].method
  BY <1>1, <1>3, <1>4
<1>. QED
  BY <1>2, <1>3, <1>4 DEF ServeCall

\* A call that is sent was none before, and asks what its caller asks.
LEMMA SendFacts ==
    ASSUME PaymentTypeOK, NEW c \in Requests,
           NEW order \in Orders \cup {BadUUID},
           NEW method \in PaymentMethods \cup {BadMethod},
           SendCall(c, order, method)
    PROVE  /\ PaymentTypeOK'
           /\ calls[c].state = "none" /\ calls'[c].state = "sent"
           /\ \A d \in Requests : d # c => calls'[d] = calls[d]
           /\ UNCHANGED payments
  BY DEF SendCall, PaymentTypeOK, Call, CallStates

-----------------------------------------------------------------------------
(* The invariant.                                                          *)

\* The types hold from the start.
LEMMA InitPayment == PaymentInit => PaymentInvariant
<1>. SUFFICES ASSUME PaymentInit PROVE PaymentInvariant
  OBVIOUS
<1>1. payments = {} /\ \A c \in Requests : calls[c].state = "none"
  BY DEF PaymentInit, NoCall
<1>2. PaymentTypeOK
  BY DEF PaymentInit, PaymentTypeOK, NoCall, Call, CallStates, Payment
<1>. QED
  BY <1>1, <1>2
     DEF PaymentInvariant, AnsweredIsRecorded, TransactionsAreUnique, RowsHaveCalls

\* A call that is sent changes no row and no answer.
LEMMA SendInvariant ==
    ASSUME PaymentInvariant, NEW c \in Requests,
           NEW order \in Orders \cup {BadUUID},
           NEW method \in PaymentMethods \cup {BadMethod},
           SendCall(c, order, method)
    PROVE  PaymentInvariant'
<1>. USE SendFacts DEF PaymentInvariant
<1>1. AnsweredIsRecorded'
  BY DEF AnsweredIsRecorded
<1>2. TransactionsAreUnique'
  BY DEF TransactionsAreUnique
<1>3. RowsHaveCalls'
  BY DEF RowsHaveCalls, Drew
<1>. QED
  BY <1>1, <1>2, <1>3

\* An answer keeps what ties the rows to the answers.
LEMMA ServeInvariant ==
    ASSUME PaymentInvariant, NEW c \in Requests, ServeCall(c)
    PROVE  PaymentInvariant'
<1>. DEFINE t == calls'[c].transaction
<1>1. PaymentTypeOK'
  BY ServeTypes DEF PaymentInvariant
<1>2. /\ calls[c].state = "sent"
      /\ \A d \in Requests : d # c => calls'[d] = calls[d]
      /\ calls'[c].order = calls[c].order
      /\ calls'[c].method = calls[c].method
  BY ServeFacts DEF PaymentInvariant
<1>3. CASE UNCHANGED payments /\ calls'[c].state # "OK"
  <2>1. AnsweredIsRecorded' /\ TransactionsAreUnique'
    BY <1>2, <1>3 DEF PaymentInvariant, AnsweredIsRecorded, TransactionsAreUnique
  <2>2. RowsHaveCalls'
    BY <1>2, <1>3 DEF PaymentInvariant, RowsHaveCalls, Drew
  <2>. QED
    BY <1>1, <2>1, <2>2 DEF PaymentInvariant
<1>4. CASE /\ calls'[c].state \in {"OK", "Internal"}
           /\ NewRandom(t)
           /\ payments' = payments \cup {PaymentOf(c, t)}
  <2>1. /\ PaymentOf(c, t).transaction_uuid = t
        /\ PaymentOf(c, t).order_uuid = calls[c].order
        /\ PaymentOf(c, t).payment_method = calls[c].method
        /\ PaymentOf(c, t) \in payments'
    BY <1>4 DEF PaymentOf
  <2>2. \A p \in payments : p.transaction_uuid # t
    BY <1>4 DEF NewRandom
  <2>3. AnsweredIsRecorded'
    BY <1>2, <1>4 DEF PaymentInvariant, AnsweredIsRecorded, PaymentOf
  <2>4. \A p, q \in payments' : p.transaction_uuid = q.transaction_uuid => p = q
    BY <1>4, <2>1, <2>2 DEF PaymentInvariant, TransactionsAreUnique
  <2>5. ASSUME NEW d \in Requests, d # c, calls'[d].state = "OK"
        PROVE  calls'[d].transaction # t
    <3>1. [transaction_uuid |-> calls[d].transaction,
           order_uuid       |-> calls[d].order,
           payment_method   |-> calls[d].method] \in payments
      BY <1>2, <2>5 DEF PaymentInvariant, AnsweredIsRecorded
    <3>. QED
      BY <1>2, <2>2, <2>5, <3>1
  <2>6. TransactionsAreUnique'
    BY <1>2, <2>4, <2>5 DEF PaymentInvariant, TransactionsAreUnique
  <2>7. ASSUME NEW p \in payments'
        PROVE  \E d \in Requests :
                  /\ calls'[d].state \in {"OK", "Internal"}
                  /\ calls'[d].transaction = p.transaction_uuid
                  /\ calls'[d].order = p.order_uuid
    <3>1. CASE p \in payments
      BY <1>2, <3>1 DEF PaymentInvariant, RowsHaveCalls, Drew
    <3>2. CASE p = PaymentOf(c, t)
      BY <1>2, <1>4, <2>1, <3>2
    <3>. QED
      BY <1>4, <3>1, <3>2
  <2>8. RowsHaveCalls'
    BY <2>7 DEF RowsHaveCalls, Drew
  <2>. QED
    BY <1>1, <2>3, <2>6, <2>8 DEF PaymentInvariant
<1>. QED
  BY <1>3, <1>4, ServeFacts DEF PaymentInvariant

\* Every step keeps the invariant.
LEMMA NextPayment ==
    PaymentInvariant /\ [PaymentNext]_paymentVars => PaymentInvariant'
<1>. SUFFICES ASSUME PaymentInvariant, [PaymentNext]_paymentVars
              PROVE  PaymentInvariant'
  OBVIOUS
<1>1. CASE UNCHANGED paymentVars
  BY <1>1 DEF paymentVars, PaymentInvariant, PaymentTypeOK, AnsweredIsRecorded,
              TransactionsAreUnique, RowsHaveCalls, Drew
<1>. QED
  BY <1>1, SendInvariant, ServeInvariant DEF PaymentNext

\* The table and the answers are tied in every state.
THEOREM PaymentInvariantHolds == PaymentSpec => []PaymentInvariant
<1>. QED
  BY InitPayment, NextPayment, PTL DEF PaymentSpec

\* Only valid payments reach the table (service.go:26-34).
THEOREM PaymentTypesHold == PaymentSpec => []PaymentTypeOK
<1>1. PaymentInvariant => PaymentTypeOK
  BY DEF PaymentInvariant
<1>. QED
  BY <1>1, PaymentInvariantHolds, PTL

\* A UUID that a caller was given names a row with what the caller sent
\* (service.go:41-58).
THEOREM AnswersAreRecorded == PaymentSpec => []AnsweredIsRecorded
<1>1. PaymentInvariant => AnsweredIsRecorded
  BY DEF PaymentInvariant
<1>. QED
  BY <1>1, PaymentInvariantHolds, PTL

\* The rows of an order are mapped to the calls for it, no two to one call.
LEMMA RowsAreCounted ==
    ASSUME PaymentInvariant, IsFiniteSet(Requests)
    PROVE  ChargedAtMostOncePerCall
<1>. SUFFICES ASSUME NEW o \in Orders
              PROVE  Cardinality({p \in payments : p.order_uuid = o})
                        <= Cardinality({c \in Requests :
                              /\ calls[c].order = o
                              /\ calls[c].state \in {"OK", "Internal"}})
  BY DEF ChargedAtMostOncePerCall
<1>. DEFINE Rows  == {p \in payments : p.order_uuid = o}
            Ended == {c \in Requests : /\ calls[c].order = o
                                       /\ calls[c].state \in {"OK", "Internal"}}
            caller == [p \in Rows |-> CHOOSE c \in Requests : Drew(c, p)]
<1>1. \A p \in Rows : caller[p] \in Requests /\ Drew(caller[p], p)
  BY DEF PaymentInvariant, RowsHaveCalls
<1>2. \A p \in Rows : caller[p] \in Ended
  BY <1>1 DEF Drew
<1>3. caller \in [Rows -> Ended]
  BY <1>2
<1>. HIDE DEF caller
<1>4. ASSUME NEW p \in Rows, NEW q \in Rows, caller[p] = caller[q]
      PROVE  p = q
  <2>1. p.transaction_uuid = q.transaction_uuid
    BY <1>1, <1>4 DEF Drew
  <2>. QED
    BY <2>1 DEF PaymentInvariant, TransactionsAreUnique
<1>5. caller \in Injection(Rows, Ended)
  BY <1>3, <1>4 DEF Injection, IsInjective
<1>6. IsFiniteSet(Ended)
  BY FS_Subset
<1>7. Cardinality(Rows) <= Cardinality(Ended)
  <2>. HIDE DEF Rows, Ended
  <2>. QED
    BY <1>5, <1>6, FS_Injection, Zenon
<1>. QED
  BY <1>7

\* However many callers there are, a call charges at most once.
THEOREM ChargedOncePerCall ==
    ASSUME IsFiniteSet(Requests)
    PROVE  PaymentSpec => []ChargedAtMostOncePerCall
<1>1. PaymentInvariant => ChargedAtMostOncePerCall
  BY RowsAreCounted
<1>. QED
  BY <1>1, PaymentInvariantHolds, PTL
=============================================================================
