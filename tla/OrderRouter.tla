----------------------------- MODULE OrderRouter -----------------------------
(***************************************************************************)
(* The generated router: ServeHTTP, which dispatches requests; FindPath,   *)
(* which answers the same question to other code; and, to compare them     *)
(* with, the paths of the OpenAPI document.                                *)
(*                                                                         *)
(* A path is a sequence of pieces: "/api/v1/orders", "/", "cancel", "pay", *)
(* a UUID, other text, or "%2F", an escaped slash, which the routers do not*)
(* take for a slash.                                                       *)
(***************************************************************************)
EXTENDS OrderSchema

\* A UUID has hexadecimal digits and dashes.
ASSUME UUIDAssumption == UUIDs \cap {"/", "%2F"} = {}

Prefix == "/api/v1/orders"

Operations == {"createOrder", "getOrder", "payOrder", "cancelOrder"}

NotFound == [kind |-> "notFound", op |-> "none", arg |-> <<>>, allowed |-> "none"]

NotAllowed(allowed) == [NotFound EXCEPT !.kind = "notAllowed", !.allowed = allowed]

Found(op, arg) == [kind |-> "found", op |-> op, arg |-> arg, allowed |-> "none"]

\* The switch on the method, at a node where the path ends.
ByMethod(method, allowed, route) ==
    IF method = allowed THEN route ELSE NotAllowed(allowed)

\* The index of the first piece of elem that is a slash, or one past the end.
SlashIndex(elem) ==
    CHOOSE i \in 1..Len(elem) + 1 :
        /\ i <= Len(elem) => elem[i] = "/"
        /\ \A j \in 1..i - 1 : elem[j] # "/"

\* Below "/api/v1/orders/{order_uuid}/".
RouteAction(method, arg, elem) ==
    CASE elem = <<"cancel">> -> ByMethod(method, "POST", Found("cancelOrder", arg))
      [] elem = <<"pay">>    -> ByMethod(method, "POST", Found("payOrder", arg))
      [] OTHER               -> NotFound

\* Wrong: what follows the parameter is not looked at.
RouteAnyOrder(method, elem) ==
    LET i == SlashIndex(elem)
        arg == SubSeq(elem, 1, i - 1)
    IN  IF i > Len(elem) \/ method = "GET" THEN ByMethod(method, "GET", Found("getOrder", arg))
        ELSE RouteAction(method, arg, SubSeq(elem, i + 1, Len(elem)))

\* Below "/api/v1/orders/": the parameter, which may be empty, is matched up to
\* the next slash.
RouteOrder(method, elem) ==
    LET i == SlashIndex(elem)
        arg == SubSeq(elem, 1, i - 1)
    IN  IF i > Len(elem) THEN ByMethod(method, "GET", Found("getOrder", arg))
        ELSE RouteAction(method, arg, SubSeq(elem, i + 1, Len(elem)))

ServeHTTP(method, path) ==
    IF path = <<>> \/ path[1] # Prefix THEN NotFound
    ELSE IF Len(path) = 1 THEN ByMethod(method, "POST", Found("createOrder", <<>>))
    ELSE IF path[2] # "/" THEN NotFound
    ELSE RouteOrder(method, SubSeq(path, 3, Len(path)))

\* url.PathUnescape: an escaped slash becomes a slash.
Unescape(arg) == [i \in DOMAIN arg |-> IF arg[i] = "%2F" THEN "/" ELSE arg[i]]

\* FindPath: the operation and its argument, unescaped, or none.  It walks the
\* same tree; a node whose method does not match ends the search.
FindPath(method, path) ==
    LET Under(elem) == Len(elem) >= 2 /\ elem[1] = Prefix /\ elem[2] = "/"
        i == SlashIndex(SubSeq(path, 3, Len(path))) + 2
        arg == Unescape(SubSeq(path, 3, i - 1))
        rest == SubSeq(path, i, Len(path))
    IN  CASE path = <<Prefix>> /\ method = "POST" -> Found("createOrder", <<>>)
          [] Under(path) /\ rest = <<>> /\ method = "GET" -> Found("getOrder", arg)
          [] Under(path) /\ rest = <<"/", "cancel">> /\ method = "POST" -> Found("cancelOrder", arg)
          [] Under(path) /\ rest = <<"/", "pay">> /\ method = "POST" -> Found("payOrder", arg)
          [] OTHER -> NotFound

\* notAllowed: OPTIONS is answered, every other method refused.
NotAllowedCode(method) == IF method = "OPTIONS" THEN 204 ELSE 405

\* decodeCancelOrderParams, and likewise for the other two: the argument is
\* unescaped if anything in the path was escaped; it must be a UUID.
Param(arg, escaped) == IF escaped THEN Unescape(arg) ELSE arg

ValidCancelOrderParams(arg, escaped) ==
    /\ arg # <<>>
    /\ \E u \in UUIDs : Param(arg, escaped) = <<u>>

ValidGetOrderParams(arg, escaped) ==
    /\ arg # <<>>
    /\ \E u \in UUIDs : Param(arg, escaped) = <<u>>

ValidPayOrderParams(arg, escaped) ==
    /\ arg # <<>>
    /\ \E u \in UUIDs : Param(arg, escaped) = <<u>>

ValidParams(op, arg, escaped) ==
    CASE op = "cancelOrder" -> ValidCancelOrderParams(arg, escaped)
      [] op = "getOrder"    -> ValidGetOrderParams(arg, escaped)
      [] op = "payOrder"    -> ValidPayOrderParams(arg, escaped)
      [] OTHER              -> TRUE

\* The paths of the OpenAPI document, with the operation under each method.
Documented(method, path) ==
    LET Under == Len(path) >= 3 /\ path[1] = Prefix /\ path[2] = "/" /\ path[3] \in UUIDs
    IN  CASE path = <<Prefix>> /\ method = "POST" -> "createOrder"
          [] Under /\ Len(path) = 3 /\ method = "GET" -> "getOrder"
          [] Under /\ SubSeq(path, 4, Len(path)) = <<"/", "pay">> /\ method = "POST" -> "payOrder"
          [] Under /\ SubSeq(path, 4, Len(path)) = <<"/", "cancel">> /\ method = "POST" -> "cancelOrder"
          [] OTHER -> "none"
=============================================================================
