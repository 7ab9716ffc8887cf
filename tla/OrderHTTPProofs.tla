-------------------------- MODULE OrderHTTPProofs --------------------------
(***************************************************************************)
(* Proofs about OrderHTTP, for paths and bodies of any length and any      *)
(* UUIDs: the router serves the documented paths; what a type writes it    *)
(* reads; and HTTPInv, which says stage by stage how far an exchange has   *)
(* come, is inductive and implies what the run of OrderHTTP checks.        *)
(***************************************************************************)
EXTENDS OrderHTTP, SequenceLemmas

-----------------------------------------------------------------------------
(* The router, for paths of any length.                                    *)

\* SlashIndex is the first slash, or one past the end.
LEMMA SlashFacts ==
    ASSUME NEW S, NEW elem \in Seq(S)
    PROVE  /\ SlashIndex(elem) \in 1 .. Len(elem) + 1
           /\ SlashIndex(elem) <= Len(elem) => elem[SlashIndex(elem)] = "/"
           /\ \A j \in 1 .. SlashIndex(elem) - 1 : elem[j] # "/"
<1>. DEFINE T == {i \in 1 .. Len(elem) + 1 : i <= Len(elem) => elem[i] = "/"}
<1>1. Len(elem) + 1 \in T /\ T \in SUBSET Nat
  OBVIOUS
<1>2. PICK i \in T : \A m \in T : i <= m
  BY <1>1, LeastNat
<1>3. ASSUME NEW j \in 1 .. i - 1 PROVE elem[j] # "/"
  BY <1>2
<1>4. i \in 1 .. Len(elem) + 1 /\ (i <= Len(elem) => elem[i] = "/")
  OBVIOUS
<1>. HIDE DEF T
<1>5. \E k \in 1 .. Len(elem) + 1 :
        (k <= Len(elem) => elem[k] = "/") /\ \A j \in 1 .. k - 1 : elem[j] # "/"
  BY <1>3, <1>4
<1>. QED
  BY <1>5, Zenon DEF SlashIndex

\* A parameter is taken for a UUID, escaped or not, exactly if it is one piece that is
\* one: an unescaped slash is no part of a UUID.
LEMMA ParamFacts ==
    ASSUME NEW S, NEW arg \in Seq(S), NEW escaped \in BOOLEAN,
           (\E i \in DOMAIN arg : arg[i] = "%2F") => escaped
    PROVE  /\ arg # <<>> /\ (\E u \in UUIDs : Param(arg, escaped) = <<u>>)
                <=> Len(arg) = 1 /\ arg[1] \in UUIDs
           /\ Len(arg) = 1 /\ arg[1] \in UUIDs => Param(arg, escaped) = <<arg[1]>>
<1>. DEFINE p == Param(arg, escaped)
            T == S \cup {"/"}
<1>1. arg \in Seq(T) /\ p \in Seq(T) /\ Len(p) = Len(arg)
      /\ \A i \in 1 .. Len(arg) : p[i] = IF escaped /\ arg[i] = "%2F" THEN "/" ELSE arg[i]
  BY DEF Param, Unescape
<1>. HIDE DEF p, T
<1>2. \A u : p = <<u>> <=> Len(p) = 1 /\ p[1] = u
  BY <1>1, IsOne
<1>3. Len(arg) = 1 => 1 \in 1 .. Len(arg) /\ arg # <<>>
  OBVIOUS
<1>4. (\E u \in UUIDs : p = <<u>>) => Len(arg) = 1 /\ arg[1] \in UUIDs
  BY <1>1, <1>2, <1>3, UUIDAssumption
<1>5. Len(arg) = 1 /\ arg[1] \in UUIDs => p = <<arg[1]>>
  <2>. SUFFICES ASSUME Len(arg) = 1, arg[1] \in UUIDs PROVE p = <<arg[1]>>
    OBVIOUS
  <2>1. p[1] = arg[1] /\ Len(p) = 1
    BY <1>1, <1>3, UUIDAssumption
  <2>. QED
    BY <1>2, <2>1
<1>. QED
  BY <1>3, <1>4, <1>5 DEF p

\* What the handler finds in the path: the operation, and its order, if it has one.
Served(method, path, escaped) ==
    LET route == ServeHTTP(method, path)
    IN  /\ route.kind = "found"
        /\ "DecodeParams" \in Steps[route.op] => ValidParams(route.op, route.arg, escaped)

RouteFacts(method, path, escaped) ==
    LET documented == Documented(method, path)
        route == ServeHTTP(method, path)
        found == FindPath(method, path)
    IN  /\ Served(method, path, escaped) <=> documented # "none"
        /\ Served(method, path, escaped) =>
                /\ route.op = documented /\ found.op = documented
                /\ route.op # "createOrder" =>
                        /\ Param(route.arg, escaped) = <<path[3]>>
                        /\ path[3] \in UUIDs
        /\ found.kind = "found" <=> route.kind = "found"
        /\ route.kind = "found" => route.op \in Operations
        /\ route.kind \in {"found", "notFound", "notAllowed"}

\* For every path and method: ServeHTTP serves what is documented, with its order, and
\* FindPath finds the same.
LEMMA Routing ==
    ASSUME NEW S, NEW path \in Seq(S), NEW method, NEW escaped \in BOOLEAN,
           (\E i \in DOMAIN path : path[i] = "%2F") => escaped
    PROVE  RouteFacts(method, path, escaped)
<1>. DEFINE elem == SubSeq(path, 3, Len(path))
            i == SlashIndex(elem)
            n == Len(elem)
            arg == SubSeq(elem, 1, i - 1)
            after == SubSeq(elem, i + 1, Len(elem))
            rest == SubSeq(path, i + 2, Len(path))
            Under == Len(path) >= 2 /\ path[1] = Prefix /\ path[2] = "/"
            pathArg == Unescape(SubSeq(path, 3, i + 1))
<1>1. path = <<Prefix>> <=> Len(path) = 1 /\ path[1] = Prefix
  BY IsOne
<1>2. CASE path = <<>> \/ path[1] # Prefix \/ (Len(path) >= 2 /\ path[2] # "/")
  <2>1. ServeHTTP(method, path) = NotFound
    BY <1>2 DEF ServeHTTP
  <2>2. FindPath(method, path) = NotFound /\ Documented(method, path) = "none"
    <3>1. path # <<Prefix>>
      <4>1. path = <<>> => Len(path) = 0
        OBVIOUS
      <4>2. Len(path) = 1 => ~ (Len(path) >= 2)
        OBVIOUS
      <4>. HIDE DEF elem, i, rest
      <4>. QED
        BY <1>1, <1>2, <4>1, <4>2
    <3>2. ~Under
      BY <1>2
    <3>. HIDE DEF elem, i, rest
    <3>3. ~(Len(path) >= 3 /\ path[1] = Prefix /\ path[2] = "/")
      BY <3>2
    <3>. QED
      BY <3>1, <3>2, <3>3 DEF FindPath, Documented
  <2>. QED
    BY <2>1, <2>2 DEF RouteFacts, Served, NotFound
<1>3. CASE path = <<Prefix>>
  <2>1. Len(path) = 1 /\ path[1] = Prefix /\ path # <<>>
    BY <1>3
  <2>2. ServeHTTP(method, path) = ByMethod(method, "POST", Found("createOrder", <<>>))
    BY <2>1 DEF ServeHTTP
  <2>3. FindPath(method, path) = IF method = "POST" THEN Found("createOrder", <<>>) ELSE NotFound
    BY <1>3, <2>1 DEF FindPath
  <2>4. Documented(method, path) = IF method = "POST" THEN "createOrder" ELSE "none"
    BY <1>3, <2>1 DEF Documented
  <2>. QED
    BY <2>2, <2>3, <2>4
    DEF RouteFacts, Served, ByMethod, Found, NotFound, NotAllowed, Steps, handleCreateOrderRequest, Operations
<1>4. CASE Under
  <2>1. /\ elem \in Seq(S) /\ Len(elem) = n /\ n \in Nat /\ Len(path) = n + 2
        /\ \A k \in 1 .. n : elem[k] = path[2 + k]
    <3>. DEFINE l == Len(path) - 2
    <3>1. l \in Nat /\ Len(path) = 2 + l /\ 2 + 1 = 3 /\ Len(path) = l + 2
      BY <1>4
    <3>. HIDE DEF l
    <3>2. elem \in Seq(S) /\ Len(elem) = l /\ \A k \in 1 .. l : elem[k] = path[2 + k]
      BY <3>1, RestFacts
    <3>. HIDE DEF elem
    <3>. QED
      BY <3>1, <3>2
  <2>2. /\ i \in 1 .. n + 1
        /\ i <= n => elem[i] = "/"
        /\ \A j \in 1 .. i - 1 : elem[j] # "/"
    BY <2>1, SlashFacts
  <2>. HIDE DEF i, elem, n
  <2>3. arg \in Seq(S) /\ Len(arg) = i - 1 /\ \A k \in 1 .. i - 1 : arg[k] = elem[k]
    BY <2>1, <2>2
  <2>4. i <= n => after \in Seq(S) /\ Len(after) = n - i
                          /\ \A k \in 1 .. n - i : after[k] = elem[i + k]
    BY <2>1, <2>2
  <2>5. rest \in Seq(S) /\ Len(rest) = n + 1 - i
        /\ \A k \in 1 .. n + 1 - i : rest[k] = path[i + 1 + k]
    BY <1>4, <2>1, <2>2
  <2>. HIDE DEF arg, after, rest
  <2>. DEFINE fits == arg # <<>> /\ \E u \in UUIDs : Param(arg, escaped) = <<u>>
              hasUUID == Len(path) >= 3 /\ path[3] \in UUIDs
  <2>6. fits <=> hasUUID /\ i = 2
    <3>1. (\E k \in DOMAIN arg : arg[k] = "%2F") => escaped
      <4>. SUFFICES ASSUME NEW k \in DOMAIN arg, arg[k] = "%2F" PROVE escaped
        OBVIOUS
      <4>1. k \in 1 .. i - 1 /\ k \in 1 .. n /\ 2 + k \in DOMAIN path
        BY <1>4, <2>1, <2>2, <2>3
      <4>2. path[2 + k] = "%2F"
        BY <2>1, <2>3, <4>1
      <4>. QED
        BY <4>1, <4>2
    <3>2. fits <=> Len(arg) = 1 /\ arg[1] \in UUIDs
      BY <2>3, <3>1, ParamFacts
    <3>. HIDE DEF fits
    <3>3. i = 2 => arg[1] = path[3] /\ Len(path) >= 3
      BY <2>1, <2>2, <2>3
    <3>. QED
      BY <2>2, <2>3, <3>2, <3>3
  <2>7. fits => Param(arg, escaped) = <<path[3]>> /\ path[3] \in UUIDs
    <3>1. (\E k \in DOMAIN arg : arg[k] = "%2F") => escaped
      <4>. SUFFICES ASSUME NEW k \in DOMAIN arg, arg[k] = "%2F" PROVE escaped
        OBVIOUS
      <4>1. k \in 1 .. i - 1 /\ k \in 1 .. n /\ 2 + k \in DOMAIN path
        BY <1>4, <2>1, <2>2, <2>3
      <4>2. path[2 + k] = "%2F"
        BY <2>1, <2>3, <4>1
      <4>. QED
        BY <4>1, <4>2
    <3>2. i = 2 => Len(arg) = 1 /\ arg[1] = path[3]
      BY <2>1, <2>2, <2>3
    <3>. HIDE DEF fits
    <3>. QED
      BY <2>3, <2>6, <3>1, <3>2, ParamFacts
  <2>. HIDE DEF fits
  <2>8. hasUUID => i >= 2
    BY <2>1, <2>2, UUIDAssumption
  <2>. HIDE DEF hasUUID
  <2>20. n \in Nat /\ i \in Nat /\ i >= 1 /\ i <= n + 1 /\ Len(path) = n + 2
    BY <1>4, <2>1, <2>2
  <2>23. hasUUID => Len(path) >= 3
    BY DEF hasUUID
  <2>21. Len(rest) = n + 1 - i
    BY <2>5
  <2>22. i <= n => Len(after) = n - i
    BY <2>4
  <2>24. Len(rest) = 2 <=> i + 1 = n
    BY <2>20, <2>21
  <2>25. ASSUME i <= n PROVE Len(after) = 1 <=> i + 1 = n
    <3>1. Len(after) = n - i
      BY <2>22, <2>25
    <3>. QED
      BY <2>20, <3>1
  <2>9. ASSUME NEW action
        PROVE  rest = <<"/", action>> <=> i <= n /\ after = <<action>>
    <3>1. rest = <<"/", action>> <=> Len(rest) = 2 /\ rest[1] = "/" /\ rest[2] = action
      BY <2>5, IsTwo
    <3>2. i <= n => (after = <<action>> <=> Len(after) = 1 /\ after[1] = action)
      BY <2>4, IsOne
    <3>3. i <= n => rest[1] = "/"
      BY <2>1, <2>2, <2>5
    <3>4. i + 1 <= n => rest[2] = after[1]
      BY <2>1, <2>2, <2>4, <2>5
    <3>. QED
      <4>1. CASE i > n
        <5>1. Len(rest) # 2 /\ ~ (i <= n)
          BY <2>20, <2>24, <4>1
        <5>. QED
          BY <3>1, <5>1
      <4>2. CASE i <= n
        <5>1. Len(rest) = 2 <=> Len(after) = 1
          BY <2>24, <2>25, <4>2
        <5>2. Len(after) = 1 => i + 1 <= n
          BY <2>20, <2>25, <4>2
        <5>. QED
          BY <3>1, <3>2, <3>3, <3>4, <4>2, <5>1, <5>2
      <4>. QED
        BY <2>20, <4>1, <4>2
  <2>10. ASSUME NEW action
         PROVE  hasUUID => (SubSeq(path, 4, Len(path)) = <<"/", action>>
                               <=> i = 2 /\ i <= n /\ after = <<action>>)
    <3>. SUFFICES ASSUME hasUUID
                  PROVE  SubSeq(path, 4, Len(path)) = <<"/", action>>
                            <=> i = 2 /\ i <= n /\ after = <<action>>
      OBVIOUS
    <3>. DEFINE tail == SubSeq(path, 4, Len(path))
    <3>1. tail \in Seq(S) /\ Len(tail) = n - 1 /\ \A k \in 1 .. n - 1 : tail[k] = elem[1 + k]
      <4>. DEFINE l == Len(path) - 3
      <4>1. l \in Nat /\ Len(path) = 3 + l /\ 3 + 1 = 4 /\ l = n - 1
        BY <2>20, <2>23
      <4>. HIDE DEF l
      <4>2. tail \in Seq(S) /\ Len(tail) = l /\ \A k \in 1 .. l : tail[k] = path[3 + k]
        BY <4>1, RestFacts
      <4>. HIDE DEF tail
      <4>3. ASSUME NEW k \in 1 .. l PROVE tail[k] = elem[1 + k]
        <5>1. 1 + k \in 1 .. n /\ 2 + (1 + k) = 3 + k
          BY <2>20, <4>1
        <5>. QED
          BY <2>1, <4>2, <5>1
      <4>. QED
        BY <4>1, <4>2, <4>3
    <3>10. Len(tail) = n - 1
      BY <3>1
    <3>11. Len(tail) = 2 <=> n = 3
      BY <2>20, <3>10
    <3>2. tail = <<"/", action>> <=> Len(tail) = 2 /\ tail[1] = "/" /\ tail[2] = action
      <4>1. tail \in Seq(S)
        BY <3>1
      <4>. HIDE DEF tail
      <4>. QED
        BY <4>1, IsTwo
    <3>3. i <= n => (after = <<action>> <=> Len(after) = 1 /\ after[1] = action)
      BY <2>4, IsOne
    <3>4. Len(tail) = 2 /\ tail[1] = "/" => i = 2
      <4>. SUFFICES ASSUME Len(tail) = 2, tail[1] = "/" PROVE ~ (i > 2)
        BY <2>8, <2>20
      <4>1. n = 3 /\ 1 \in 1 .. n - 1
        BY <3>11
      <4>2. elem[1 + 1] = "/"
        BY <3>1, <4>1
      <4>. QED
        BY <2>2, <2>20, <4>2
    <3>5. i = 2 /\ i <= n => tail[1] = "/"
      BY <2>1, <2>2, <3>1
    <3>6. i = 2 /\ i + 1 <= n => tail[2] = after[1]
      BY <2>1, <2>2, <2>4, <3>1
    <3>. QED
      <4>1. CASE i = 2 /\ i <= n
        <5>1. Len(tail) = 2 <=> Len(after) = 1
          BY <2>20, <2>25, <3>11, <4>1
        <5>2. Len(after) = 1 => i + 1 <= n
          BY <2>20, <2>25, <4>1
        <5>3. tail = <<"/", action>> <=> after = <<action>>
          BY <3>2, <3>3, <3>5, <3>6, <4>1, <5>1, <5>2
        <5>. QED
          BY <4>1, <5>3 DEF tail
      <4>2. CASE i # 2
        <5>1. tail # <<"/", action>>
          BY <3>2, <3>4, <4>2
        <5>. QED
          BY <4>2, <5>1 DEF tail
      <4>3. CASE i = 2 /\ i > n
        <5>1. Len(tail) # 2 /\ ~ (i <= n)
          BY <2>20, <3>11, <4>3
        <5>. QED
          BY <3>2, <5>1 DEF tail
      <4>. QED
        BY <2>20, <4>1, <4>2, <4>3
  <2>11. rest = <<>> <=> i > n
    <3>1. Len(rest) = 0 <=> i > n
      BY <2>20, <2>21
    <3>2. rest = <<>> <=> Len(rest) = 0
      BY <2>5, IsNone
    <3>. QED
      BY <3>1, <3>2
  <2>12. hasUUID /\ Len(path) = 3 <=> hasUUID /\ i = 2 /\ i > n
    BY <2>8, <2>20
  <2>13. ServeHTTP(method, path) =
            IF i > n THEN ByMethod(method, "GET", Found("getOrder", arg))
            ELSE RouteAction(method, arg, after)
    <3>1. path # <<>> /\ Len(path) # 1
      BY <1>4
    <3>2. ServeHTTP(method, path) = RouteOrder(method, SubSeq(path, 3, Len(path)))
      BY <1>4, <3>1 DEF ServeHTTP
    <3>. QED
      BY <3>2 DEF RouteOrder, arg, after, i, elem, n
  <2>14. FindPath(method, path) =
            CASE i > n /\ method = "GET" -> Found("getOrder", pathArg)
              [] i <= n /\ after = <<"cancel">> /\ method = "POST" -> Found("cancelOrder", pathArg)
              [] i <= n /\ after = <<"pay">> /\ method = "POST" -> Found("payOrder", pathArg)
              [] OTHER -> NotFound
    <3>1. path # <<Prefix>>
      BY <1>1, <1>4
    <3>2. (i + 2) - 1 = i + 1
      BY <2>20
    <3>3. FindPath(method, path) =
            CASE path = <<Prefix>> /\ method = "POST" -> Found("createOrder", <<>>)
              [] Under /\ rest = <<>> /\ method = "GET" -> Found("getOrder", pathArg)
              [] Under /\ rest = <<"/", "cancel">> /\ method = "POST" -> Found("cancelOrder", pathArg)
              [] Under /\ rest = <<"/", "pay">> /\ method = "POST" -> Found("payOrder", pathArg)
              [] OTHER -> NotFound
      BY <3>2 DEF FindPath, rest, i, elem
    <3>4. Under /\ (rest = <<>> <=> i > n)
      BY <1>4, <2>11
    <3>5. /\ rest = <<"/", "cancel">> <=> i <= n /\ after = <<"cancel">>
          /\ rest = <<"/", "pay">> <=> i <= n /\ after = <<"pay">>
      BY <2>9
    <3>. HIDE DEF pathArg, Under
    <3>. QED
      BY <3>1, <3>3, <3>4, <3>5
  <2>15. Documented(method, path) =
            CASE hasUUID /\ i = 2 /\ i > n /\ method = "GET" -> "getOrder"
              [] hasUUID /\ i = 2 /\ i <= n /\ after = <<"pay">> /\ method = "POST" -> "payOrder"
              [] hasUUID /\ i = 2 /\ i <= n /\ after = <<"cancel">> /\ method = "POST" -> "cancelOrder"
              [] OTHER -> "none"
    <3>1. path # <<Prefix>>
      BY <1>1, <1>4
    <3>. DEFINE tail == SubSeq(path, 4, Len(path))
    <3>2. Documented(method, path) =
            CASE path = <<Prefix>> /\ method = "POST" -> "createOrder"
              [] hasUUID /\ Len(path) = 3 /\ method = "GET" -> "getOrder"
              [] hasUUID /\ tail = <<"/", "pay">> /\ method = "POST" -> "payOrder"
              [] hasUUID /\ tail = <<"/", "cancel">> /\ method = "POST" -> "cancelOrder"
              [] OTHER -> "none"
      <4>1. hasUUID <=> Len(path) >= 3 /\ path[1] = Prefix /\ path[2] = "/" /\ path[3] \in UUIDs
        BY <1>4 DEF hasUUID
      <4>. HIDE DEF tail
      <4>. QED
        BY <4>1 DEF Documented, tail
    <3>. HIDE DEF tail
    <3>3. hasUUID => /\ tail = <<"/", "pay">> <=> i = 2 /\ i <= n /\ after = <<"pay">>
                     /\ tail = <<"/", "cancel">> <=> i = 2 /\ i <= n /\ after = <<"cancel">>
      BY <2>10 DEF tail
    <3>. QED
      BY <2>12, <3>1, <3>2, <3>3
  <2>16. "cancel" # "pay" /\ (after = <<"cancel">> => after # <<"pay">>)
    OBVIOUS
  <2>17. \A op \in {"getOrder", "payOrder", "cancelOrder"} :
            /\ ValidParams(op, arg, escaped) <=> fits
            /\ Steps[op] \in {{"DecodeParams"}, {"DecodeParams", "DecodeRequest"}}
    BY DEF ValidParams, ValidGetOrderParams, ValidPayOrderParams, ValidCancelOrderParams, fits,
           Steps, handleGetOrderRequest, handlePayOrderRequest, handleCancelOrderRequest
  <2>. HIDE DEF pathArg
  <2>18. CASE i > n
    <3>1. ServeHTTP(method, path) = ByMethod(method, "GET", Found("getOrder", arg))
      BY <2>13, <2>18
    <3>2. ~ (i <= n)
      BY <2>20, <2>18
    <3>3. FindPath(method, path) = IF method = "GET" THEN Found("getOrder", pathArg) ELSE NotFound
      BY <2>14, <2>18, <3>2
    <3>4. Documented(method, path) = IF fits /\ method = "GET" THEN "getOrder" ELSE "none"
      BY <2>6, <2>15, <2>18, <3>2
    <3>5. CASE method = "GET"
      <4>1. /\ ServeHTTP(method, path).kind = "found" /\ ServeHTTP(method, path).op = "getOrder"
            /\ ServeHTTP(method, path).arg = arg
            /\ FindPath(method, path).kind = "found" /\ FindPath(method, path).op = "getOrder"
        BY <3>1, <3>3, <3>5 DEF ByMethod, Found
      <4>2. Served(method, path, escaped) <=> fits
        <5>1. ValidParams(ServeHTTP(method, path).op, ServeHTTP(method, path).arg, escaped) <=> fits
          BY <2>17, <4>1
        <5>2. "DecodeParams" \in Steps[ServeHTTP(method, path).op]
          BY <2>17, <4>1
        <5>. QED
          BY <4>1, <5>1, <5>2 DEF Served
      <4>3. "getOrder" \in Operations /\ "getOrder" # "none"
        BY <2>17 DEF Operations
      <4>. QED
        BY <2>7, <3>4, <3>5, <4>1, <4>2, <4>3 DEF RouteFacts
    <3>6. CASE method # "GET"
      <4>1. ServeHTTP(method, path).kind = "notAllowed" /\ FindPath(method, path).kind = "notFound"
        BY <3>1, <3>3, <3>6 DEF ByMethod, NotAllowed, NotFound
      <4>2. ~Served(method, path, escaped)
        BY <4>1 DEF Served
      <4>. QED
        BY <3>4, <3>6, <4>1, <4>2 DEF RouteFacts
    <3>. QED
      BY <3>5, <3>6
  <2>19. ASSUME i <= n,
                NEW action, NEW op,
                <<action, op>> \in {<<"cancel", "cancelOrder">>, <<"pay", "payOrder">>},
                after = <<action>>
         PROVE  RouteFacts(method, path, escaped)
    <3>1. ~ (i > n)
      BY <2>20, <2>19
    <3>2. ServeHTTP(method, path) = ByMethod(method, "POST", Found(op, arg))
      BY <2>13, <2>16, <2>19, <3>1 DEF RouteAction
    <3>3. FindPath(method, path) = IF method = "POST" THEN Found(op, pathArg) ELSE NotFound
      BY <2>14, <2>16, <2>19, <3>1
    <3>4. Documented(method, path) = IF fits /\ method = "POST" THEN op ELSE "none"
      BY <2>6, <2>15, <2>16, <2>19, <3>1
    <3>5. CASE method = "POST"
      <4>1. /\ ServeHTTP(method, path).kind = "found" /\ ServeHTTP(method, path).op = op
            /\ ServeHTTP(method, path).arg = arg
            /\ FindPath(method, path).kind = "found" /\ FindPath(method, path).op = op
        BY <3>2, <3>3, <3>5 DEF ByMethod, Found
      <4>2. Served(method, path, escaped) <=> fits
        <5>1. ValidParams(ServeHTTP(method, path).op, ServeHTTP(method, path).arg, escaped) <=> fits
          BY <2>19, <2>17, <4>1
        <5>2. "DecodeParams" \in Steps[ServeHTTP(method, path).op]
          BY <2>19, <2>17, <4>1
        <5>. QED
          BY <4>1, <5>1, <5>2 DEF Served
      <4>3. op \in Operations /\ op # "none"
        BY <2>19, <2>17 DEF Operations
      <4>. QED
        BY <2>7, <3>4, <3>5, <4>1, <4>2, <4>3 DEF RouteFacts
    <3>6. CASE method # "POST"
      <4>1. ServeHTTP(method, path).kind = "notAllowed" /\ FindPath(method, path).kind = "notFound"
        BY <3>2, <3>3, <3>6 DEF ByMethod, NotAllowed, NotFound
      <4>2. ~Served(method, path, escaped)
        BY <4>1 DEF Served
      <4>. QED
        BY <3>4, <3>6, <4>1, <4>2 DEF RouteFacts
    <3>. QED
      BY <3>5, <3>6
  <2>26. CASE i <= n /\ after # <<"cancel">> /\ after # <<"pay">>
    <3>1. ~ (i > n)
      BY <2>20, <2>26
    <3>2. ServeHTTP(method, path) = NotFound /\ FindPath(method, path) = NotFound
      BY <2>13, <2>14, <2>26, <3>1 DEF RouteAction
    <3>3. Documented(method, path) = "none"
      BY <2>15, <2>26, <3>1
    <3>. QED
      BY <3>2, <3>3 DEF RouteFacts, Served, NotFound
  <2>. QED
    BY <2>18, <2>19, <2>20, <2>26
<1>. QED
  <2>. HIDE DEF elem, i, arg, after, rest, pathArg
  <2>1. Len(path) = 1 \/ path = <<>> \/ Len(path) >= 2
    <3>. DEFINE l == Len(path)
    <3>1. l \in Nat /\ (path = <<>> <=> l = 0)
      BY IsNone
    <3>. HIDE DEF l
    <3>2. l = 0 \/ l = 1 \/ l >= 2
      BY <3>1
    <3>. QED
      BY <3>1, <3>2 DEF l
  <2>. QED
    BY <1>1, <1>2, <1>3, <1>4, <2>1

-----------------------------------------------------------------------------
(* What Encode writes, Decode reads: for every schema.                     *)

\* The entry that is written of a field that is set.
Written(field, value) ==
    Entry(field.name,
          IF value = Null THEN Token("null", "null") ELSE EncodeValue(field.kind, value))

\* A field that is set writes one entry, and any other none.
LEMMA EncodeFieldFacts ==
    ASSUME NEW field, NEW value
    PROVE  EncodeField(field, value) = IF value = Unset THEN <<>> ELSE <<Written(field, value)>>
BY OptAssumption DEF EncodeField, Written

\* The entries of the first fields.
EntriesOf(fields, struct, k) ==
    {Written(fields[i], struct[fields[i].name]) : i \in {j \in 1 .. k : struct[fields[j].name] # Unset}}

\* The fields that are set have been written, and nothing else.
LEMMA EncodeFacts ==
    ASSUME NEW schema, NEW struct, NEW n \in Nat, DOMAIN schema.fields = 1 .. n
    PROVE  LET doc == Encode(schema, struct)
           IN  IsSequence(doc) /\ ToSet(doc) = EntriesOf(schema.fields, struct, n)
<1>. DEFINE fields == schema.fields
            E == {Written(fields[i], struct[fields[i].name]) : i \in 1 .. n}
            A == Seq(E)
            Put(doc, field) == doc \o EncodeField(field, struct[field.name])
            next == [k \in 1 .. n |-> [doc \in A |-> Put(doc, fields[k])]]
            Eq(iter) == iter = [S \in SUBSET DOMAIN fields |->
                                   IF S = {} THEN <<>>
                                   ELSE Put(iter[S \ {Max(S)}], fields[Max(S)])]
<1>1. Encode(schema, struct) = (CHOOSE f : Eq(f))[DOMAIN fields]
  BY DEF Encode, FoldLeft, MapThenFoldSet
<1>2. ASSUME NEW k \in 1 .. n, NEW doc \in A
      PROVE  /\ Put(doc, fields[k]) \in A
             /\ ToSet(Put(doc, fields[k])) =
                    IF struct[fields[k].name] = Unset THEN ToSet(doc)
                    ELSE ToSet(doc) \cup {Written(fields[k], struct[fields[k].name])}
  <2>. DEFINE w == Written(fields[k], struct[fields[k].name])
  <2>1. w \in E
    OBVIOUS
  <2>. HIDE DEF E, w, fields
  <2>2. doc \o <<>> = doc
    OBVIOUS
  <2>3. doc \o <<w>> \in A /\ ToSet(doc \o <<w>>) = ToSet(doc) \cup {w}
    BY <2>1, AppendFacts
  <2>4. Put(doc, fields[k]) = IF struct[fields[k].name] = Unset THEN doc ELSE doc \o <<w>>
    BY <2>2, EncodeFieldFacts DEF w
  <2>. HIDE DEF Put
  <2>. QED
    BY <2>3, <2>4 DEF w
<1>3. <<>> \in A /\ ToSet(<<>>) = {}
  BY DEF ToSet
<1>4. DOMAIN fields = 1 .. n
  OBVIOUS
<1>. HIDE DEF E, A, fields, Put
<1>5. \A k \in 1 .. n, doc \in A : next[k][doc] = Put(doc, fields[k]) /\ next[k][doc] \in A
  BY <1>2
<1>. HIDE DEF next
<1>6. Stays(next, 1 .. n, A)
  BY <1>5 DEF Stays
<1>7. PICK iter : SolvesFold(iter, n, A, <<>>, next)
  BY <1>3, <1>6, FoldExists
<1>8. Eq(iter)
  <2>1. ASSUME NEW S \in SUBSET (1 .. n), S # {}
        PROVE  iter[S] = Put(iter[S \ {Max(S)}], fields[Max(S)])
    BY <1>5, <1>7, <2>1, MaxFacts DEF SolvesFold
  <2>. QED
    BY <1>4, <1>7, <2>1 DEF SolvesFold
<1>. DEFINE it == CHOOSE f : Eq(f)
            part == [k \in 0 .. n |-> it[1 .. k]]
<1>9. Eq(it)
  BY <1>8, Zenon
<1>. HIDE DEF it
<1>10. part[0] = <<>>
  BY <1>9
<1>11. ASSUME NEW k \in 1 .. n PROVE part[k] = Put(part[k - 1], fields[k])
  <2>1. it[1 .. k] = Put(it[(1 .. k) \ {Max(1 .. k)}], fields[Max(1 .. k)])
    <3>1. 1 .. k \in SUBSET DOMAIN fields /\ k \in 1 .. k
      BY <1>4
    <3>. QED
      BY <1>9, <3>1
  <2>2. Max(1 .. k) = k /\ (1 .. k) \ {k} = 1 .. k - 1
    BY FoldSteps
  <2>3. k - 1 \in 0 .. n /\ k \in 0 .. n
    OBVIOUS
  <2>. QED
    BY <2>1, <2>2, <2>3
<1>12. Encode(schema, struct) = part[n]
  BY <1>1, <1>4 DEF it
<1>. HIDE DEF part
<1>. DEFINE T == {k \in Nat : k <= n => part[k] \in A /\ ToSet(part[k]) = EntriesOf(fields, struct, k)}
<1>13. 0 \in T
  <2>1. EntriesOf(fields, struct, 0) = {}
    BY DEF EntriesOf
  <2>. QED
    BY <1>3, <1>10, <2>1
<1>14. ASSUME NEW k \in Nat, k \in T PROVE k + 1 \in T
  <2>. SUFFICES ASSUME k + 1 <= n
                PROVE  part[k + 1] \in A /\ ToSet(part[k + 1]) = EntriesOf(fields, struct, k + 1)
    OBVIOUS
  <2>1. k + 1 \in 1 .. n /\ (k + 1) - 1 = k /\ 1 .. k + 1 = (1 .. k) \cup {k + 1}
    OBVIOUS
  <2>2. part[k] \in A /\ ToSet(part[k]) = EntriesOf(fields, struct, k)
    BY <1>14
  <2>3. part[k + 1] = Put(part[k], fields[k + 1])
    BY <1>11, <2>1
  <2>4. EntriesOf(fields, struct, k + 1) =
            IF struct[fields[k + 1].name] = Unset THEN EntriesOf(fields, struct, k)
            ELSE EntriesOf(fields, struct, k) \cup {Written(fields[k + 1], struct[fields[k + 1].name])}
    BY <2>1 DEF EntriesOf
  <2>. QED
    BY <1>2, <2>1, <2>2, <2>3, <2>4
<1>15. n \in T
  <2>. HIDE DEF T
  <2>. QED
    BY <1>13, <1>14, Induction
<1>16. part[n] \in Seq(E) /\ ToSet(part[n]) = EntriesOf(fields, struct, n)
  BY <1>15 DEF A
<1>17. IsSequence(part[n])
  BY <1>16 DEF IsSequence, ToSet
<1>. QED
  BY <1>12, <1>16, <1>17 DEF fields

\* The index of the last entry with a key, or 0.
LastIndex(doc, name) == SelectLastInSeq(doc, LAMBDA e : e.key = name)

\* The last entry with a key, if there is one.
LEMMA LastFacts ==
    ASSUME NEW doc, IsSequence(doc), NEW name
    PROVE  LET i == LastIndex(doc, name)
           IN  \/ i = 0 /\ \A e \in ToSet(doc) : e.key # name
               \/ i \in DOMAIN doc /\ doc[i].key = name /\ i # 0
<1>. DEFINE l == Len(doc)
            I == {i \in 1 .. l : doc[i].key = name}
            last == LastIndex(doc, name)
<1>1. l \in Nat /\ DOMAIN doc = 1 .. l
  BY DEF IsSequence
<1>2. last = IF I # {} THEN Max(I) ELSE 0
  BY DEF LastIndex, SelectLastInSeq
<1>. HIDE DEF last, l
<1>3. CASE I = {}
  BY <1>1, <1>2, <1>3 DEF ToSet, last
<1>4. CASE I # {}
  <2>1. Max(I) \in I
    BY <1>1, <1>4, MaxFacts
  <2>2. last \in I
    BY <1>2, <1>4, <2>1
  <2>3. last \in DOMAIN doc /\ doc[last].key = name /\ last # 0
    BY <1>1, <2>2
  <2>. QED
    BY <2>3 DEF last
<1>. QED
  BY <1>3, <1>4

\* LastValue by the index of the last entry.
LEMMA LastValueIs ==
    ASSUME NEW doc, NEW name
    PROVE  LastValue(doc, name) =
                IF LastIndex(doc, name) = 0 THEN Unset
                ELSE IF doc[LastIndex(doc, name)].token.type = "null" THEN Null
                ELSE doc[LastIndex(doc, name)].token.value
BY DEF LastValue, LastIndex

\* The last value of a key is that of one of its entries; Unset, if it has none.
LEMMA LastValueFacts ==
    ASSUME NEW doc, IsSequence(doc), NEW name
    PROVE  \/ LastValue(doc, name) = Unset /\ \A e \in ToSet(doc) : e.key # name
           \/ \E e \in ToSet(doc) :
                /\ e.key = name
                /\ LastValue(doc, name) = IF e.token.type = "null" THEN Null ELSE e.token.value
<1>1. \A i \in DOMAIN doc : doc[i] \in ToSet(doc)
  BY DEF ToSet
<1>. QED
  BY <1>1, LastFacts, LastValueIs

\* The fields of a schema have different names, and the mask counts them.
WellFormed(schema) ==
    /\ \E n \in Nat : DOMAIN schema.fields = 1 .. n
    /\ \A i, j \in DOMAIN schema.fields : schema.fields[i].name = schema.fields[j].name => i = j
    /\ \A bit \in schema.mask : bit + 1 \in DOMAIN schema.fields

\* What is written of a value that is set is accepted.
ValueFits(field, value) == value # Unset => Accepts(field.kind, Written(field, value).token)

\* A struct has the fields of its schema; what is written of a field that is set is
\* accepted, and the required ones are set.
StructFits(schema, struct) ==
    /\ struct = [name \in Names(schema) |-> struct[name]]
    /\ \A i \in DOMAIN schema.fields : ValueFits(schema.fields[i], struct[schema.fields[i].name])
    /\ \A bit \in schema.mask : struct[schema.fields[bit + 1].name] # Unset

\* Names and kinds by the indices of the fields.
LEMMA FieldFacts ==
    ASSUME NEW schema, WellFormed(schema)
    PROVE  /\ Names(schema) = {schema.fields[i].name : i \in DOMAIN schema.fields}
           /\ \A i \in DOMAIN schema.fields : KindOf(schema, schema.fields[i].name) = schema.fields[i].kind
<1>. DEFINE fields == schema.fields
<1>1. Names(schema) = {fields[i].name : i \in DOMAIN fields}
  BY DEF Names, ToSet
<1>2. ASSUME NEW i \in DOMAIN fields PROVE KindOf(schema, fields[i].name) = fields[i].kind
  <2>. DEFINE Is(f) == f \in ToSet(fields) /\ f.name = fields[i].name
              one == CHOOSE f \in ToSet(fields) : f.name = fields[i].name
  <2>1. fields[i] \in ToSet(fields)
    BY DEF ToSet
  <2>2. one \in ToSet(fields) /\ one.name = fields[i].name
    BY <2>1
  <2>. HIDE DEF one
  <2>3. PICK j \in DOMAIN fields : one = fields[j]
    BY <2>2 DEF ToSet
  <2>4. j = i
    BY <2>2, <2>3 DEF WellFormed
  <2>. QED
    BY <2>3, <2>4 DEF KindOf, one
<1>. QED
  BY <1>1, <1>2

\* The struct, with its instants as they are written.
AsWritten(schema, struct) ==
    [name \in Names(schema) |->
        IF struct[name] \notin {Unset, Null} /\ KindOf(schema, name) = "DateTime"
        THEN EncodeDateTime(struct[name])
        ELSE struct[name]]

\* A value of any kind as it is written, and that only null is written as null.
LEMMA ValueFacts ==
    ASSUME NEW kind, NEW value
    PROVE  /\ EncodeValue(kind, value).type # "null"
           /\ EncodeValue(kind, value).type = IF kind = "Int" THEN "number" ELSE "string"
           /\ EncodeValue(kind, value).value = IF kind = "DateTime" THEN EncodeDateTime(value) ELSE value
<1>1. CASE kind = "Int"
  BY <1>1 DEF EncodeValue, Token
<1>2. CASE kind = "DateTime"
  BY <1>2 DEF EncodeValue, Token
<1>3. CASE kind \notin {"Int", "DateTime"}
  BY <1>3 DEF EncodeValue, Token
<1>. QED
  BY <1>1, <1>2, <1>3

\* What Encode writes, Decode reads as it was, but for the fractions of a second: for every
\* schema whose fields have different names, and every struct whose values fit its fields,
\* with any of the optional fields unset or null.
THEOREM RoundTrip ==
    ASSUME NEW schema, WellFormed(schema), NEW struct, StructFits(schema, struct)
    PROVE  Decode(schema, Encode(schema, struct)) = Success(AsWritten(schema, struct))
<1>. DEFINE fields == schema.fields
            doc == Encode(schema, struct)
            known == {e \in ToSet(doc) : e.key \in Names(schema)}
            value(i) == struct[fields[i].name]
<1>1. PICK n \in Nat : DOMAIN fields = 1 .. n
  BY DEF WellFormed
<1>2. IsSequence(doc) /\ ToSet(doc) = EntriesOf(fields, struct, n)
  BY <1>1, EncodeFacts
<1>. HIDE DEF doc
<1>3. \A i \in 1 .. n : fields[i].name \in Names(schema) /\ KindOf(schema, fields[i].name) = fields[i].kind
  BY <1>1, FieldFacts
<1>4. \A e \in ToSet(doc) : \E i \in 1 .. n :
        value(i) # Unset /\ e = Written(fields[i], value(i)) /\ e.key = fields[i].name
  BY <1>2 DEF EntriesOf, Written, Entry
<1>5. \A i \in 1 .. n : value(i) # Unset => Written(fields[i], value(i)) \in ToSet(doc)
  BY <1>2 DEF EntriesOf
<1>6. known = ToSet(doc)
  BY <1>3, <1>4
<1>7. \A e \in known : Accepts(KindOf(schema, e.key), e.token)
  BY <1>1, <1>3, <1>4, <1>6 DEF StructFits, ValueFits
<1>8. Required(schema) \subseteq {e.key : e \in known}
  <2>. SUFFICES ASSUME NEW bit \in schema.mask PROVE \E e \in ToSet(doc) : e.key = fields[bit + 1].name
    BY <1>6 DEF Required
  <2>1. bit + 1 \in 1 .. n /\ value(bit + 1) # Unset
    BY <1>1 DEF WellFormed, StructFits
  <2>. QED
    BY <1>5, <2>1 DEF Written, Entry
<1>9. ASSUME NEW name \in Names(schema) PROVE LastValue(doc, name) = AsWritten(schema, struct)[name]
  <2>1. PICK i \in 1 .. n : fields[i].name = name
    BY <1>1, FieldFacts
  <2>2. CASE \A e \in ToSet(doc) : e.key # name
    <3>1. value(i) = Unset
      BY <1>5, <2>1, <2>2 DEF Written, Entry
    <3>2. LastValue(doc, name) = Unset
      BY <1>2, <2>2, LastValueFacts
    <3>. QED
      BY <2>1, <3>1, <3>2 DEF AsWritten
  <2>3. ASSUME NEW e \in ToSet(doc), e.key = name,
               LastValue(doc, name) = IF e.token.type = "null" THEN Null ELSE e.token.value
        PROVE  LastValue(doc, name) = AsWritten(schema, struct)[name]
    <3>1. PICK j \in 1 .. n : /\ value(j) # Unset
                              /\ e = Written(fields[j], value(j)) /\ e.key = fields[j].name
      BY <1>4
    <3>2. j = i
      BY <1>1, <2>1, <2>3, <3>1 DEF WellFormed
    <3>. DEFINE kind == fields[i].kind
    <3>3. /\ value(i) = Null => e.token = Token("null", "null")
          /\ value(i) # Null => e.token = EncodeValue(kind, value(i))
      BY <3>1, <3>2 DEF Written, Entry
    <3>4. e.token.type = "null" <=> value(i) = Null
      BY <3>3, ValueFacts DEF Token
    <3>5. value(i) # Null =>
            e.token.value = IF kind = "DateTime" THEN EncodeDateTime(value(i)) ELSE value(i)
      BY <3>3, ValueFacts
    <3>6. LastValue(doc, name) =
            IF value(i) # Null /\ kind = "DateTime" THEN EncodeDateTime(value(i)) ELSE value(i)
      BY <2>3, <3>4, <3>5
    <3>7. KindOf(schema, name) = kind /\ struct[name] = value(i) /\ value(i) # Unset
      BY <1>3, <2>1, <3>1, <3>2
    <3>. HIDE DEF kind, value
    <3>. QED
      BY <3>6, <3>7, Zenon DEF AsWritten
  <2>. QED
    BY <1>2, <2>2, <2>3, LastValueFacts
<1>10. [name \in Names(schema) |-> LastValue(doc, name)] = AsWritten(schema, struct)
  BY <1>9 DEF AsWritten
<1>. HIDE DEF known
<1>11. Decode(schema, doc) = Success([name \in Names(schema) |-> LastValue(doc, name)])
  BY <1>7, <1>8 DEF Decode, known
<1>. QED
  BY <1>10, <1>11 DEF doc

\* A struct without instants is read exactly as it was.
LEMMA ExactRoundTrip ==
    ASSUME NEW schema, WellFormed(schema), NEW struct, StructFits(schema, struct),
           \A i \in DOMAIN schema.fields : schema.fields[i].kind # "DateTime"
    PROVE  Decode(schema, Encode(schema, struct)) = Success(struct)
<1>1. \A name \in Names(schema) : KindOf(schema, name) # "DateTime"
  BY FieldFacts
<1>2. AsWritten(schema, struct) = [name \in Names(schema) |-> struct[name]]
  BY <1>1 DEF AsWritten
<1>3. AsWritten(schema, struct) = struct
  BY <1>2 DEF StructFits
<1>. QED
  BY <1>3, RoundTrip

\* An instant is written without its fractions, and is an instant then.
LEMMA DateTimeFacts ==
    ASSUME NEW t \in Instants
    PROVE  /\ EncodeDateTime(t) \in Instants
           /\ EncodeDateTime(t) % Second = 0
           /\ EncodeDateTime(t) <= t /\ t < EncodeDateTime(t) + Second
<1>1. Second \in Nat \ {0} /\ t \in Int /\ EncodeDateTime(t) \in Instants
  BY InstantsAssumption
<1>2. PICK q \in Int : t = q * Second + (t % Second) /\ t % Second \in 0 .. Second - 1
  BY <1>1, Division
<1>3. EncodeDateTime(t) = q * Second + 0 /\ EncodeDateTime(t) \in Int
  BY <1>1, <1>2 DEF EncodeDateTime
<1>4. EncodeDateTime(t) % Second = 0
  BY <1>1, <1>3, 0 \in 0 .. Second - 1, Remainder
<1>. QED
  BY <1>1, <1>2, <1>4 DEF EncodeDateTime

-----------------------------------------------------------------------------
(* The types of the interface.                                             *)

\* The fields of each type, by their indices.
LEMMA CreateOrderRequestFields ==
    /\ WellFormed(CreateOrderRequest)
    /\ DOMAIN CreateOrderRequest.fields = 1 .. 4
    /\ CreateOrderRequest.mask = {0, 1}
    /\ CreateOrderRequest.fields[1] = Field("hull_uuid", "UUID")
    /\ CreateOrderRequest.fields[2] = Field("engine_uuid", "UUID")
    /\ CreateOrderRequest.fields[3] = Field("shield_uuid", "OptNilUUID")
    /\ CreateOrderRequest.fields[4] = Field("weapon_uuid", "OptNilUUID")
BY DEF CreateOrderRequest, Schema, Field, WellFormed

\* Those of a request to pay.
LEMMA PayOrderRequestFields ==
    /\ WellFormed(PayOrderRequest)
    /\ DOMAIN PayOrderRequest.fields = 1 .. 1
    /\ PayOrderRequest.mask = {0}
    /\ PayOrderRequest.fields[1] = Field("payment_method", "PaymentMethod")
BY DEF PayOrderRequest, Schema, Field, WellFormed

\* Those of the answer to a creation.
LEMMA CreateOrderResponseFields ==
    /\ WellFormed(CreateOrderResponse)
    /\ DOMAIN CreateOrderResponse.fields = 1 .. 2
    /\ CreateOrderResponse.mask = {0, 1}
    /\ CreateOrderResponse.fields[1] = Field("order_uuid", "UUID")
    /\ CreateOrderResponse.fields[2] = Field("total_price", "Int")
BY DEF CreateOrderResponse, Schema, Field, WellFormed

\* Those of the answer to a payment.
LEMMA PayOrderResponseFields ==
    /\ WellFormed(PayOrderResponse)
    /\ DOMAIN PayOrderResponse.fields = 1 .. 1
    /\ PayOrderResponse.mask = {0}
    /\ PayOrderResponse.fields[1] = Field("transaction_uuid", "UUID")
BY DEF PayOrderResponse, Schema, Field, WellFormed

\* The answer to a cancellation has none.
LEMMA CancelOrderResponseFields ==
    /\ WellFormed(CancelOrderResponse)
    /\ DOMAIN CancelOrderResponse.fields = {}
    /\ CancelOrderResponse.mask = {}
<1>1. DOMAIN <<>> = 1 .. 0 /\ 1 .. 0 = {} /\ 0 \in Nat
  OBVIOUS
<1>. QED
  BY <1>1 DEF CancelOrderResponse, Schema, WellFormed

\* Those of an error.
LEMMA ErrorFields ==
    /\ WellFormed(Error)
    /\ DOMAIN Error.fields = 1 .. 2
    /\ Error.mask = {0, 1}
    /\ Error.fields[1] = Field("code", "Int")
    /\ Error.fields[2] = Field("message", "Str")
BY DEF Error, Schema, Field, WellFormed

\* Those of an order.
LEMMA OrderDtoFacts ==
    /\ WellFormed(OrderDto)
    /\ DOMAIN OrderDto.fields = 1 .. 10
    /\ OrderDto.mask = {0, 1, 2, 5, 8, 9}
    /\ OrderDto.fields[1] = Field("order_uuid", "UUID")
    /\ OrderDto.fields[2] = Field("hull_uuid", "UUID")
    /\ OrderDto.fields[3] = Field("engine_uuid", "UUID")
    /\ OrderDto.fields[4] = Field("shield_uuid", "OptNilUUID")
    /\ OrderDto.fields[5] = Field("weapon_uuid", "OptNilUUID")
    /\ OrderDto.fields[6] = Field("total_price", "Int")
    /\ OrderDto.fields[7] = Field("transaction_uuid", "OptNilUUID")
    /\ OrderDto.fields[8] = Field("payment_method", "OptNilPaymentMethod")
    /\ OrderDto.fields[9] = Field("status", "OrderStatus")
    /\ OrderDto.fields[10] = Field("created_at", "DateTime")
BY DEF OrderDto, OrderDtoFields, Schema, Field, WellFormed

\* What is not set and what is null is no number and no instant.
LEMMA OptIsNoNumber ==
    /\ \A i \in Int : i \notin {Unset, Null}
    /\ \A t \in Instants : t \in Int /\ t \notin {Unset, Null}
<1>1. Unset \notin Int /\ Null \notin Int
  BY OptAssumption, Zenon
<1>2. \A t \in Instants : t \in Int
  BY InstantsAssumption
<1>3. \A i \in Int : i \notin {Unset, Null}
  BY <1>1, Zenon
<1>. QED
  BY <1>2, <1>3, Zenon

\* The values that fit a field, by its kind.
LEMMA FitsKind ==
    ASSUME NEW name, NEW value
    PROVE  /\ value \in UUIDs => ValueFits(Field(name, "UUID"), value)
           /\ value \in UUIDs \cup {Unset, Null} => ValueFits(Field(name, "OptNilUUID"), value)
           /\ value \in Int => ValueFits(Field(name, "Int"), value)
           /\ value # Null => ValueFits(Field(name, "Str"), value)
           /\ value # Null => ValueFits(Field(name, "PaymentMethod"), value)
           /\ ValueFits(Field(name, "OptNilPaymentMethod"), value)
           /\ value # Null => ValueFits(Field(name, "OrderStatus"), value)
           /\ value \in Instants => ValueFits(Field(name, "DateTime"), value)
<1>. DEFINE Tok(kind) == Written(Field(name, kind), value).token
<1>1. \A kind : value = Null => Tok(kind).type = "null"
  BY DEF Written, Field, Entry, Token
<1>20. \A kind : value # Null => Tok(kind) = EncodeValue(kind, value)
  BY DEF Written, Field, Entry
<1>2. \A kind : value # Null /\ kind \notin {"Int", "DateTime"} =>
            Tok(kind).type = "string" /\ Tok(kind).value = value
  BY <1>20, ValueFacts
<1>3. value # Null => Tok("Int").type = "number"
  BY <1>20, ValueFacts
<1>4. value \in UUIDs \/ value \in Instants \/ value \in Int => value # Null
  BY OptAssumption, OptIsNoNumber, Zenon
<1>5. \A kind : Field(name, kind).kind = kind
  BY DEF Field
<1>. HIDE DEF Tok
<1>6. value \in UUIDs => Accepts("UUID", Tok("UUID"))
  BY <1>2, <1>4 DEF Accepts, DecodeUUID
<1>7. value \in UUIDs \cup {Null} => Accepts("OptNilUUID", Tok("OptNilUUID"))
  BY <1>1, <1>2, <1>4 DEF Accepts, DecodeOptNilUUID, DecodeUUID
<1>8. value \in Int => Accepts("Int", Tok("Int"))
  BY <1>3, <1>4 DEF Accepts, DecodeInt
<1>9. value # Null => Accepts("Str", Tok("Str")) /\ Accepts("PaymentMethod", Tok("PaymentMethod"))
                      /\ Accepts("OrderStatus", Tok("OrderStatus"))
  BY <1>2 DEF Accepts, DecodeStr, DecodePaymentMethod, DecodeOrderStatus
<1>10. Accepts("OptNilPaymentMethod", Tok("OptNilPaymentMethod"))
  BY <1>1, <1>2 DEF Accepts, DecodeOptNilPaymentMethod, DecodePaymentMethod
<1>11. value \in Instants => Accepts("DateTime", Tok("DateTime"))
  BY <1>4, <1>20, ValueFacts, DateTimeFacts DEF Accepts, DecodeDateTime
<1>12. \A kind : Accepts(kind, Tok(kind)) => ValueFits(Field(name, kind), value)
  BY <1>5 DEF ValueFits, Tok
<1>13. \A kind : value = Unset => ValueFits(Field(name, kind), value)
  BY DEF ValueFits
<1>. QED
  BY <1>6, <1>7, <1>8, <1>9, <1>10, <1>11, <1>12, <1>13

\* The name of a field.
LEMMA FieldName == \A name, kind : Field(name, kind).name = name
BY DEF Field

-----------------------------------------------------------------------------
(* What each type writes, it reads.                                        *)

\* A request to create an order, with its optional parts set, unset or null.
LEMMA CreateOrderRequestRead ==
    ASSUME NEW struct \in [hull_uuid : UUIDs, engine_uuid : UUIDs,
                           shield_uuid : UUIDs \cup {Unset, Null}, weapon_uuid : UUIDs \cup {Unset, Null}]
    PROVE  Decode(CreateOrderRequest, Encode(CreateOrderRequest, struct)) = Success(struct)
<1>. USE CreateOrderRequestFields
<1>1. Names(CreateOrderRequest) = {"hull_uuid", "engine_uuid", "shield_uuid", "weapon_uuid"}
  <2>1. Names(CreateOrderRequest) = {CreateOrderRequest.fields[i].name : i \in 1 .. 4}
    BY FieldFacts
  <2>2. 1 .. 4 = {1, 2, 3, 4}
    OBVIOUS
  <2>. QED
    BY <2>1, <2>2 DEF Field
<1>2. struct = [name \in Names(CreateOrderRequest) |-> struct[name]]
  BY <1>1
<1>3. \A i \in 1 .. 4 : ValueFits(CreateOrderRequest.fields[i], struct[CreateOrderRequest.fields[i].name])
  <2>1. ValueFits(Field("hull_uuid", "UUID"), struct["hull_uuid"])
    BY FitsKind
  <2>2. ValueFits(Field("engine_uuid", "UUID"), struct["engine_uuid"])
    BY FitsKind
  <2>3. ValueFits(Field("shield_uuid", "OptNilUUID"), struct["shield_uuid"])
    BY FitsKind
  <2>4. ValueFits(Field("weapon_uuid", "OptNilUUID"), struct["weapon_uuid"])
    BY FitsKind
  <2>. QED
    BY FieldName, <2>1, <2>2, <2>3, <2>4
<1>4. \A bit \in {0, 1} : struct[CreateOrderRequest.fields[bit + 1].name] # Unset
  BY OptAssumption DEF Field
<1>5. StructFits(CreateOrderRequest, struct)
  BY <1>2, <1>3, <1>4 DEF StructFits
<1>6. \A i \in 1 .. 4 : CreateOrderRequest.fields[i].kind # "DateTime"
  BY DEF Field
<1>. QED
  BY <1>5, <1>6, ExactRoundTrip

\* A request to pay, with any method, even one that does not exist.
LEMMA PayOrderRequestRead ==
    ASSUME NEW method, method \notin {Unset, Null}
    PROVE  LET struct == [payment_method |-> method]
           IN  Decode(PayOrderRequest, Encode(PayOrderRequest, struct)) = Success(struct)
<1>. USE PayOrderRequestFields
<1>. DEFINE struct == [payment_method |-> method]
<1>1. Names(PayOrderRequest) = {"payment_method"}
  <2>1. Names(PayOrderRequest) = {PayOrderRequest.fields[i].name : i \in 1 .. 1}
    BY FieldFacts
  <2>. QED
    BY <2>1 DEF Field
<1>2. struct = [name \in Names(PayOrderRequest) |-> struct[name]]
  BY <1>1
<1>3. \A i \in 1 .. 1 : ValueFits(PayOrderRequest.fields[i], struct[PayOrderRequest.fields[i].name])
  <2>1. ValueFits(Field("payment_method", "PaymentMethod"), struct["payment_method"])
    BY FitsKind
  <2>. QED
    BY FieldName, <2>1
<1>4. \A bit \in {0} : struct[PayOrderRequest.fields[bit + 1].name] # Unset
  BY OptAssumption DEF Field
<1>5. StructFits(PayOrderRequest, struct)
  BY <1>2, <1>3, <1>4 DEF StructFits
<1>6. \A i \in 1 .. 1 : PayOrderRequest.fields[i].kind # "DateTime"
  BY DEF Field
<1>. QED
  BY <1>5, <1>6, ExactRoundTrip

\* The answer to it: the order and its price.
LEMMA CreateOrderResponseRead ==
    ASSUME NEW u \in UUIDs, NEW price \in Int
    PROVE  LET struct == [order_uuid |-> u, total_price |-> price]
           IN  Decode(CreateOrderResponse, Encode(CreateOrderResponse, struct)) = Success(struct)
<1>. USE CreateOrderResponseFields
<1>. DEFINE struct == [order_uuid |-> u, total_price |-> price]
<1>1. Names(CreateOrderResponse) = {"order_uuid", "total_price"}
  <2>1. Names(CreateOrderResponse) = {CreateOrderResponse.fields[i].name : i \in 1 .. 2}
    BY FieldFacts
  <2>2. 1 .. 2 = {1, 2}
    OBVIOUS
  <2>. QED
    BY <2>1, <2>2 DEF Field
<1>2. struct = [name \in Names(CreateOrderResponse) |-> struct[name]]
  BY <1>1
<1>3. \A i \in 1 .. 2 : ValueFits(CreateOrderResponse.fields[i], struct[CreateOrderResponse.fields[i].name])
  <2>1. ValueFits(Field("order_uuid", "UUID"), struct["order_uuid"])
    BY FitsKind
  <2>2. ValueFits(Field("total_price", "Int"), struct["total_price"])
    BY FitsKind
  <2>. QED
    BY FieldName, <2>1, <2>2
<1>4. \A bit \in {0, 1} : struct[CreateOrderResponse.fields[bit + 1].name] # Unset
  BY OptAssumption DEF Field
<1>5. StructFits(CreateOrderResponse, struct)
  BY <1>2, <1>3, <1>4 DEF StructFits
<1>6. \A i \in 1 .. 2 : CreateOrderResponse.fields[i].kind # "DateTime"
  BY DEF Field
<1>. QED
  BY <1>5, <1>6, ExactRoundTrip

\* The answer to a payment.
LEMMA PayOrderResponseRead ==
    ASSUME NEW u \in UUIDs
    PROVE  LET struct == [transaction_uuid |-> u]
           IN  Decode(PayOrderResponse, Encode(PayOrderResponse, struct)) = Success(struct)
<1>. USE PayOrderResponseFields
<1>. DEFINE struct == [transaction_uuid |-> u]
<1>1. Names(PayOrderResponse) = {"transaction_uuid"}
  <2>1. Names(PayOrderResponse) = {PayOrderResponse.fields[i].name : i \in 1 .. 1}
    BY FieldFacts
  <2>. QED
    BY <2>1 DEF Field
<1>2. struct = [name \in Names(PayOrderResponse) |-> struct[name]]
  BY <1>1
<1>3. \A i \in 1 .. 1 : ValueFits(PayOrderResponse.fields[i], struct[PayOrderResponse.fields[i].name])
  <2>1. ValueFits(Field("transaction_uuid", "UUID"), struct["transaction_uuid"])
    BY FitsKind
  <2>. QED
    BY FieldName, <2>1
<1>4. \A bit \in {0} : struct[PayOrderResponse.fields[bit + 1].name] # Unset
  BY OptAssumption DEF Field
<1>5. StructFits(PayOrderResponse, struct)
  BY <1>2, <1>3, <1>4 DEF StructFits
<1>6. \A i \in 1 .. 1 : PayOrderResponse.fields[i].kind # "DateTime"
  BY DEF Field
<1>. QED
  BY <1>5, <1>6, ExactRoundTrip

\* The answer to a cancellation, which has no fields.
LEMMA CancelOrderResponseRead ==
    Decode(CancelOrderResponse, Encode(CancelOrderResponse, <<>>)) = Success(<<>>)
<1>. USE CancelOrderResponseFields
<1>1. Names(CancelOrderResponse) = {}
  BY FieldFacts
<1>2. <<>> = [name \in {} |-> <<>>[name]]
  OBVIOUS
<1>3. StructFits(CancelOrderResponse, <<>>)
  BY <1>1, <1>2 DEF StructFits
<1>. QED
  BY <1>3, ExactRoundTrip

\* An error, with its code.
LEMMA ErrorRead ==
    ASSUME NEW code \in Int
    PROVE  LET struct == [code |-> code, message |-> "text"]
           IN  Decode(Error, Encode(Error, struct)) = Success(struct)
<1>. USE ErrorFields
<1>. DEFINE struct == [code |-> code, message |-> "text"]
<1>1. Names(Error) = {"code", "message"}
  <2>1. Names(Error) = {Error.fields[i].name : i \in 1 .. 2}
    BY FieldFacts
  <2>2. 1 .. 2 = {1, 2}
    OBVIOUS
  <2>. QED
    BY <2>1, <2>2 DEF Field
<1>2. struct = [name \in Names(Error) |-> struct[name]]
  BY <1>1
<1>3. \A i \in 1 .. 2 : ValueFits(Error.fields[i], struct[Error.fields[i].name])
  <2>1. ValueFits(Field("code", "Int"), struct["code"])
    BY FitsKind
  <2>2. ValueFits(Field("message", "Str"), struct["message"])
    BY OptAssumption, FitsKind
  <2>. QED
    BY FieldName, <2>1, <2>2
<1>4. \A bit \in {0, 1} : struct[Error.fields[bit + 1].name] # Unset
  BY OptAssumption DEF Field
<1>5. StructFits(Error, struct)
  BY <1>2, <1>3, <1>4 DEF StructFits
<1>6. \A i \in 1 .. 2 : Error.fields[i].kind # "DateTime"
  BY DEF Field
<1>. QED
  BY <1>5, <1>6, ExactRoundTrip

\* The service's order, as clients are shown it: in whole seconds.
LEMMA OrderDtoRead ==
    ASSUME NEW o \in Orders
    PROVE  LET got == AsWritten(OrderDto, OrderToDTO(o))
           IN  /\ Decode(OrderDto, Encode(OrderDto, OrderToDTO(o))) = Success(got)
               /\ ValidOrderDto(got)
               /\ ToTheSecond(got, OrderToDTO(o))
<1>. USE OrderDtoFacts
<1>. DEFINE struct == OrderToDTO(o)
<1>1. Names(OrderDto) = {"order_uuid", "hull_uuid", "engine_uuid", "shield_uuid", "weapon_uuid",
                         "total_price", "transaction_uuid", "payment_method", "status", "created_at"}
  <2>1. Names(OrderDto) = {OrderDto.fields[i].name : i \in 1 .. 10}
    BY FieldFacts
  <2>2. 1 .. 10 = {1, 2, 3, 4, 5, 6, 7, 8, 9, 10}
    OBVIOUS
  <2>. QED
    BY <2>1, <2>2 DEF Field
<1>2. struct = [name \in Names(OrderDto) |-> struct[name]]
  BY <1>1 DEF OrderToDTO
<1>3. /\ struct.order_uuid \in UUIDs /\ struct.hull_uuid \in UUIDs /\ struct.engine_uuid \in UUIDs
      /\ struct.shield_uuid \in UUIDs \cup {Unset} /\ struct.weapon_uuid \in UUIDs \cup {Unset}
      /\ struct.total_price \in Int
      /\ struct.transaction_uuid \in UUIDs \cup {Unset}
      /\ struct.payment_method \in PaymentMethods \cup {Unset}
      /\ struct.status \in OrderStatuses
      /\ struct.created_at \in Instants
  BY OrdersAssumption DEF OrderToDTO, OptOf, OrderStatusToDTO, OrderStatuses
<1>4. struct.status \notin {Unset, Null}
  BY <1>3, OptAssumption
<1>. HIDE DEF struct
<1>5. \A i \in 1 .. 10 : ValueFits(OrderDto.fields[i], struct[OrderDto.fields[i].name])
  <2>1. ValueFits(Field("order_uuid", "UUID"), struct["order_uuid"])
    BY <1>3, FitsKind
  <2>2. ValueFits(Field("hull_uuid", "UUID"), struct["hull_uuid"])
    BY <1>3, FitsKind
  <2>3. ValueFits(Field("engine_uuid", "UUID"), struct["engine_uuid"])
    BY <1>3, FitsKind
  <2>4. ValueFits(Field("shield_uuid", "OptNilUUID"), struct["shield_uuid"])
    BY <1>3, FitsKind
  <2>5. ValueFits(Field("weapon_uuid", "OptNilUUID"), struct["weapon_uuid"])
    BY <1>3, FitsKind
  <2>6. ValueFits(Field("total_price", "Int"), struct["total_price"])
    BY <1>3, FitsKind
  <2>7. ValueFits(Field("transaction_uuid", "OptNilUUID"), struct["transaction_uuid"])
    BY <1>3, FitsKind
  <2>8. ValueFits(Field("payment_method", "OptNilPaymentMethod"), struct["payment_method"])
    BY <1>3, FitsKind
  <2>9. ValueFits(Field("status", "OrderStatus"), struct["status"])
    BY <1>4, FitsKind
  <2>10. ValueFits(Field("created_at", "DateTime"), struct["created_at"])
    BY <1>3, FitsKind
  <2>. QED
    BY FieldName, <2>1, <2>2, <2>3, <2>4, <2>5, <2>6, <2>7, <2>8, <2>9, <2>10
<1>20. struct.total_price \notin {Unset, Null} /\ struct.created_at \notin {Unset, Null}
  BY <1>3, OptIsNoNumber, Zenon
<1>6. \A bit \in {0, 1, 2, 5, 8, 9} : struct[OrderDto.fields[bit + 1].name] # Unset
  BY <1>3, <1>4, <1>20, OptAssumption DEF Field
<1>7. StructFits(OrderDto, struct)
  BY <1>2, <1>5, <1>6 DEF StructFits
<1>. DEFINE got == AsWritten(OrderDto, struct)
<1>8. DOMAIN got = Names(OrderDto) /\ DOMAIN struct = Names(OrderDto)
  BY <1>2 DEF AsWritten
<1>9. \A i \in 1 .. 10 : KindOf(OrderDto, OrderDto.fields[i].name) = OrderDto.fields[i].kind
  BY FieldFacts
<1>10. \A i \in 1 .. 9 : OrderDto.fields[i].kind # "DateTime"
  <2>1. 1 .. 9 = {1, 2, 3, 4, 5, 6, 7, 8, 9}
    OBVIOUS
  <2>. QED
    BY <2>1 DEF Field
<1>11. \A i \in 1 .. 9 : got[OrderDto.fields[i].name] = struct[OrderDto.fields[i].name]
  <2>1. \A i \in 1 .. 9 : OrderDto.fields[i].name \in Names(OrderDto)
                          /\ KindOf(OrderDto, OrderDto.fields[i].name) # "DateTime"
    BY <1>9, <1>10, FieldFacts
  <2>. QED
    BY <2>1 DEF AsWritten
<1>12. \A name \in Names(OrderDto) \ {"created_at"} : got[name] = struct[name]
  <2>. SUFFICES ASSUME NEW name \in Names(OrderDto) \ {"created_at"}
                PROVE  \E i \in 1 .. 9 : OrderDto.fields[i].name = name
    BY <1>11
  <2>1. PICK i \in 1 .. 10 : OrderDto.fields[i].name = name
    BY FieldFacts
  <2>2. i # 10
    BY <2>1 DEF Field
  <2>. QED
    BY <2>1, <2>2
<1>13. got.created_at = EncodeDateTime(struct.created_at)
  <2>1. KindOf(OrderDto, "created_at") = "DateTime" /\ "created_at" \in Names(OrderDto)
    BY <1>1, <1>9 DEF Field
  <2>. QED
    BY <1>20, <2>1 DEF AsWritten
<1>14. got.payment_method = struct.payment_method /\ got.status = struct.status
  BY <1>1, <1>12
<1>. HIDE DEF got
<1>15. ValidOrderDto(got)
  BY <1>3, <1>14 DEF ValidOrderDto, ValidPaymentMethod, ValidOrderStatus
<1>16. ToTheSecond(got, struct)
  BY <1>3, <1>8, <1>12, <1>13, DateTimeFacts DEF ToTheSecond
<1>. QED
  BY <1>7, <1>15, <1>16, RoundTrip DEF struct, got

-----------------------------------------------------------------------------
(* The request decoders accept what the document describes.                *)

\* When Decode accepts a document, and what it makes of it.
LEMMA DecodeFacts ==
    ASSUME NEW schema, NEW doc
    PROVE  LET d == Decode(schema, doc)
               known == {e \in ToSet(doc) : e.key \in Names(schema)}
               fits == /\ \A e \in known : Accepts(KindOf(schema, e.key), e.token)
                       /\ Required(schema) \subseteq {e.key : e \in known}
           IN  /\ d.ok <=> fits
               /\ d.ok => d.struct = [name \in Names(schema) |-> LastValue(doc, name)]
<1>. DEFINE known == {e \in ToSet(doc) : e.key \in Names(schema)}
            fits == /\ \A e \in known : Accepts(KindOf(schema, e.key), e.token)
                    /\ Required(schema) \subseteq {e.key : e \in known}
<1>1. Decode(schema, doc) =
        IF fits THEN Success([name \in Names(schema) |-> LastValue(doc, name)]) ELSE Failure
  BY DEF Decode
<1>. HIDE DEF fits
<1>2. /\ Decode(schema, doc).ok <=> fits
      /\ Decode(schema, doc).ok =>
            Decode(schema, doc).struct = [name \in Names(schema) |-> LastValue(doc, name)]
  BY <1>1 DEF Success, Failure
<1>. QED
  BY <1>2 DEF fits

\* The names, kinds and required fields of a request to create an order.
LEMMA CreateOrderRequestSchema ==
    /\ Names(CreateOrderRequest) = {"hull_uuid", "engine_uuid", "shield_uuid", "weapon_uuid"}
    /\ Required(CreateOrderRequest) = {"hull_uuid", "engine_uuid"}
    /\ \A name \in {"hull_uuid", "engine_uuid"} : KindOf(CreateOrderRequest, name) = "UUID"
    /\ \A name \in {"shield_uuid", "weapon_uuid"} : KindOf(CreateOrderRequest, name) = "OptNilUUID"
<1>. DEFINE fields == CreateOrderRequest.fields
<1>1. fields[1].name = "hull_uuid" /\ fields[2].name = "engine_uuid" /\ fields[3].name = "shield_uuid"
      /\ fields[4].name = "weapon_uuid" /\ fields[1].kind = "UUID" /\ fields[2].kind = "UUID"
      /\ fields[3].kind = "OptNilUUID" /\ fields[4].kind = "OptNilUUID"
  BY CreateOrderRequestFields DEF Field
<1>2. Names(CreateOrderRequest) = {fields[i].name : i \in 1 .. 4}
      /\ \A i \in 1 .. 4 : KindOf(CreateOrderRequest, fields[i].name) = fields[i].kind
  BY CreateOrderRequestFields, FieldFacts
<1>3. Required(CreateOrderRequest) = {fields[bit + 1].name : bit \in {0, 1}}
  BY CreateOrderRequestFields DEF Required
<1>4. 1 .. 4 = {1, 2, 3, 4} /\ 0 + 1 = 1 /\ 1 + 1 = 2
  OBVIOUS
<1>. HIDE DEF fields
<1>5. Names(CreateOrderRequest) = {"hull_uuid", "engine_uuid", "shield_uuid", "weapon_uuid"}
  BY <1>1, <1>2, <1>4
<1>6. Required(CreateOrderRequest) = {"hull_uuid", "engine_uuid"}
  BY <1>1, <1>3, <1>4
<1>7. /\ \A name \in {"hull_uuid", "engine_uuid"} : KindOf(CreateOrderRequest, name) = "UUID"
      /\ \A name \in {"shield_uuid", "weapon_uuid"} : KindOf(CreateOrderRequest, name) = "OptNilUUID"
  BY <1>1, <1>2, <1>4
<1>. QED
  BY <1>5, <1>6, <1>7

\* The same of a request to pay.
LEMMA PayOrderRequestSchema ==
    /\ Names(PayOrderRequest) = {"payment_method"}
    /\ Required(PayOrderRequest) = {"payment_method"}
    /\ KindOf(PayOrderRequest, "payment_method") = "PaymentMethod"
<1>. DEFINE fields == PayOrderRequest.fields
<1>1. fields[1].name = "payment_method" /\ fields[1].kind = "PaymentMethod"
  BY PayOrderRequestFields DEF Field
<1>2. Names(PayOrderRequest) = {fields[i].name : i \in 1 .. 1}
      /\ \A i \in 1 .. 1 : KindOf(PayOrderRequest, fields[i].name) = fields[i].kind
  BY PayOrderRequestFields, FieldFacts
<1>3. Required(PayOrderRequest) = {fields[bit + 1].name : bit \in {0}}
  BY PayOrderRequestFields DEF Required
<1>. HIDE DEF fields
<1>. QED
  BY <1>1, <1>2, <1>3

\* A request to create an order is accepted exactly if the document allows it, and its
\* fields then have their types.
LEMMA CreateOrderDecoded ==
    ASSUME NEW doc, IsSequence(doc)
    PROVE  LET d == Decode(CreateOrderRequest, doc)
           IN  /\ d.ok <=> ConformingBody("createOrder", doc)
               /\ d.ok => d.struct \in [hull_uuid : UUIDs, engine_uuid : UUIDs,
                                        shield_uuid : UUIDs \cup {Unset, Null},
                                        weapon_uuid : UUIDs \cup {Unset, Null}]
<1>. DEFINE d == Decode(CreateOrderRequest, doc)
            names == Names(CreateOrderRequest)
            known == {e \in ToSet(doc) : e.key \in names}
            fits == /\ \A e \in known : Accepts(KindOf(CreateOrderRequest, e.key), e.token)
                    /\ Required(CreateOrderRequest) \subseteq {e.key : e \in known}
<1>1. (d.ok <=> fits) /\ (d.ok => d.struct = [name \in names |-> LastValue(doc, name)])
  BY DecodeFacts
<1>2. \A token : Accepts("UUID", token) <=> IsUUID(token)
  BY DEF Accepts, DecodeUUID, IsUUID
<1>3. \A token : Accepts("OptNilUUID", token) <=> IsUUID(token) \/ token.type = "null"
  BY DEF Accepts, DecodeOptNilUUID, DecodeUUID, IsUUID
<1>. HIDE DEF d
<1>4. fits <=> ConformingBody("createOrder", doc)
  BY <1>2, <1>3, CreateOrderRequestSchema DEF ConformingBody, Keys
<1>5. ASSUME fits, NEW name \in {"hull_uuid", "engine_uuid"} PROVE LastValue(doc, name) \in UUIDs
  <2>1. PICK e \in ToSet(doc) : e.key = name
    BY <1>5, CreateOrderRequestSchema
  <2>2. \A f \in ToSet(doc) : f.key = name => IsUUID(f.token)
    BY <1>2, <1>5, CreateOrderRequestSchema
  <2>. QED
    BY <2>1, <2>2, LastValueFacts DEF IsUUID
<1>6. ASSUME fits, NEW name \in {"shield_uuid", "weapon_uuid"}
      PROVE  LastValue(doc, name) \in UUIDs \cup {Unset, Null}
  <2>1. \A f \in ToSet(doc) : f.key = name => IsUUID(f.token) \/ f.token.type = "null"
    BY <1>3, <1>6, CreateOrderRequestSchema
  <2>. QED
    BY <2>1, LastValueFacts DEF IsUUID
<1>. HIDE DEF fits
<1>7. ASSUME fits
      PROVE  [name \in names |-> LastValue(doc, name)]
                \in [hull_uuid : UUIDs, engine_uuid : UUIDs,
                     shield_uuid : UUIDs \cup {Unset, Null}, weapon_uuid : UUIDs \cup {Unset, Null}]
  BY <1>5, <1>6, <1>7, CreateOrderRequestSchema
<1>. QED
  BY <1>1, <1>4, <1>7 DEF d

\* A request to pay is accepted, by the decoder and the validator, exactly if the
\* document allows it.
LEMMA PayOrderDecoded ==
    ASSUME NEW doc, IsSequence(doc)
    PROVE  LET d == Decode(PayOrderRequest, doc)
           IN  /\ d.ok /\ ValidPayOrderRequest(d.struct) <=> ConformingBody("payOrder", doc)
               /\ d.ok => d.struct = [payment_method |-> d.struct.payment_method]
<1>. DEFINE d == Decode(PayOrderRequest, doc)
            known == {e \in ToSet(doc) : e.key \in {"payment_method"}}
            fits == /\ \A e \in known : Accepts("PaymentMethod", e.token)
                    /\ {"payment_method"} \subseteq {e.key : e \in known}
            last == LastIndex(doc, "payment_method")
            method == LastValue(doc, "payment_method")
<1>1. (d.ok <=> fits) /\ (d.ok => d.struct = [name \in {"payment_method"} |-> LastValue(doc, name)])
  BY DecodeFacts, PayOrderRequestSchema
<1>2. d.ok => d.struct.payment_method = method /\ d.struct = [payment_method |-> method]
  BY <1>1
<1>3. fits <=> /\ "payment_method" \in Keys(doc)
               /\ \A e \in ToSet(doc) : e.key = "payment_method" => e.token.type = "string"
  BY DEF Accepts, DecodePaymentMethod, Keys
<1>4. ConformingBody("payOrder", doc) <=>
        /\ "payment_method" \in Keys(doc)
        /\ \A e \in ToSet(doc) : e.key = "payment_method" => e.token.type = "string"
        /\ last \in {i \in DOMAIN doc : doc[i].token.value \in PaymentMethods}
  BY DEF ConformingBody, LastIndex
<1>5. fits => last \in DOMAIN doc /\ method = doc[last].token.value
  <2>. SUFFICES ASSUME fits PROVE last \in DOMAIN doc /\ method = doc[last].token.value
    OBVIOUS
  <2>1. last \in DOMAIN doc /\ doc[last].key = "payment_method" /\ last # 0
    BY <1>3, LastFacts DEF Keys
  <2>2. doc[last].token.type = "string"
    BY <1>3, <2>1 DEF ToSet
  <2>. QED
    BY <2>1, <2>2, LastValueIs
<1>. HIDE DEF d, fits, last, method
<1>6. d.ok /\ ValidPayOrderRequest(d.struct) <=> fits /\ method \in PaymentMethods
  BY <1>1, <1>2 DEF ValidPayOrderRequest, ValidPaymentMethod
<1>7. d.ok /\ ValidPayOrderRequest(d.struct) <=> ConformingBody("payOrder", doc)
  BY <1>3, <1>4, <1>5, <1>6
<1>. QED
  BY <1>2, <1>7 DEF d

\* What each call of the client sends.
WireOf(c) ==
    CASE c.op = "createOrder" ->
            [method |-> "POST", path |-> <<Prefix>>, body |-> Body(Encode(CreateOrderRequest, c.struct))]
      [] c.op = "getOrder" ->
            [method |-> "GET", path |-> <<Prefix, "/", c.arg>>, body |-> NoBody]
      [] c.op = "payOrder" ->
            [method |-> "POST", path |-> <<Prefix, "/", c.arg, "/", "pay">>,
             body |-> Body(Encode(PayOrderRequest, c.struct))]
      [] c.op = "cancelOrder" ->
            [method |-> "POST", path |-> <<Prefix, "/", c.arg, "/", "cancel">>, body |-> NoBody]

\* The request is that of the call, or another program's.
Sent ==
    \/ call \in Calls /\ wire = WireOf(call)
    \/ call = Nothing /\ \E r \in Requests : wire = [method |-> r.method, path |-> r.path, body |-> r.body]

\* The request gets through the router and the decoders.
Accepted == Route.kind = "found" /\ ParamsFit /\ Decoding.code = 0

\* The service has been called with what the request says, and the API layer has
\* answered.
Handled ==
    /\ Accepted
    /\ seen = ServiceCall(Route.op, Route.arg, Decoding.struct)
    /\ answer \in Answers[Route.op]

\* The request was refused before the API layer, with a reply that no client takes
\* for an answer.
Refused ==
    /\ seen = Nothing /\ answer = Nothing
    /\ ~Accepted \/ "read" \in failed
    /\ "write" \notin failed
    /\ reply.code \in {204, 400, 404, 405, 415}
    /\ reply.ctype = JSON => reply.doc = <<Entry("error_message", Token("string", "text"))>>

\* The answer was written, or its code and nothing that could be read.
Answered ==
    /\ Handled
    /\ "read" \notin failed
    /\ reply.code = answer.code
    /\ IF "write" \in failed THEN reply.text # "object"
       ELSE /\ reply.ctype = JSON /\ reply.text = "object"
            /\ reply.doc = Encode(Encoded[Route.op][answer.code], answer.struct)

\* How far the exchange has come, stage by stage.
HTTPInv ==
    /\ stage \in {"idle", "sent", "decode", "encode", "replied", "done"}
    /\ failed \subseteq Faults \cap {"read", "write", "reply"}
    /\ IF stage = "idle" THEN call = Nothing /\ wire = Nothing ELSE Sent
    /\ stage \in {"idle", "sent", "decode"} => seen = Nothing /\ answer = Nothing
    /\ stage \in {"idle", "sent", "decode", "encode"} => reply = Nothing /\ failed = {}
    /\ stage = "decode" => Route.kind = "found"
    /\ stage = "encode" => Handled
    /\ stage \in {"replied", "done"} => Refused \/ Answered
    /\ stage = "replied" => "reply" \notin failed
    /\ stage = "done" /\ call # Nothing =>
            result = IF "reply" \in failed THEN CallFails ELSE DecodeResponse(call.op)

-----------------------------------------------------------------------------
(* A request that was sent: where it goes and what is made of it.          *)

\* The paths that the client writes are sequences.
LEMMA TuplesAreSequences ==
    /\ IsSequence(<<>>)
    /\ \A a : IsSequence(<<a>>)
    /\ \A a, b, c : IsSequence(<<a, b, c>>)
    /\ \A a, b, c, d, e : IsSequence(<<a, b, c, d, e>>)
<1>1. IsSequence(<<>>)
  BY DEF IsSequence
<1>2. ASSUME NEW a PROVE IsSequence(<<a>>)
  <2>1. a \in ToSet(<<a>>)
    BY DEF ToSet
  <2>. QED
    BY <2>1 DEF IsSequence
<1>3. ASSUME NEW a, NEW b, NEW c PROVE IsSequence(<<a, b, c>>)
  <2>1. a \in ToSet(<<a, b, c>>) /\ b \in ToSet(<<a, b, c>>) /\ c \in ToSet(<<a, b, c>>)
    BY DEF ToSet
  <2>. QED
    BY <2>1 DEF IsSequence
<1>4. ASSUME NEW a, NEW b, NEW c, NEW d, NEW e PROVE IsSequence(<<a, b, c, d, e>>)
  <2>. DEFINE t == <<a, b, c, d, e>>
  <2>1. a \in ToSet(t) /\ b \in ToSet(t) /\ c \in ToSet(t) /\ d \in ToSet(t) /\ e \in ToSet(t)
    BY DEF ToSet
  <2>. QED
    BY <2>1 DEF IsSequence
<1>. QED
  BY <1>1, <1>2, <1>3, <1>4

\* A document that is written is a sequence.
LEMMA EncodeIsSequence ==
    ASSUME NEW schema, WellFormed(schema), NEW struct
    PROVE  IsSequence(Encode(schema, struct))
BY EncodeFacts DEF WellFormed

\* The path and the document of what was sent are sequences.
LEMMA SentIsSequence ==
    ASSUME Sent
    PROVE  IsSequence(wire.path) /\ IsSequence(wire.body.doc)
<1>1. CASE call \in Calls /\ wire = WireOf(call)
  <2>1. call.op \in {"createOrder", "getOrder", "payOrder", "cancelOrder"}
    BY <1>1, CallsAssumption
  <2>2. CASE call.op = "createOrder"
    <3>1. wire.path = <<Prefix>> /\ wire.body.doc = Encode(CreateOrderRequest, call.struct)
      BY <1>1, <2>2 DEF WireOf, Body
    <3>. QED
      BY <3>1, TuplesAreSequences, EncodeIsSequence, CreateOrderRequestFields
  <2>3. CASE call.op = "getOrder"
    <3>1. wire.path = <<Prefix, "/", call.arg>> /\ wire.body.doc = <<>>
      BY <1>1, <2>3 DEF WireOf, NoBody
    <3>. QED
      BY <3>1, TuplesAreSequences
  <2>4. CASE call.op = "payOrder"
    <3>1. /\ wire.path = <<Prefix, "/", call.arg, "/", "pay">>
          /\ wire.body.doc = Encode(PayOrderRequest, call.struct)
      BY <1>1, <2>4 DEF WireOf, Body
    <3>. QED
      BY <3>1, TuplesAreSequences, EncodeIsSequence, PayOrderRequestFields
  <2>5. CASE call.op = "cancelOrder"
    <3>1. wire.path = <<Prefix, "/", call.arg, "/", "cancel">> /\ wire.body.doc = <<>>
      BY <1>1, <2>5 DEF WireOf, NoBody
    <3>. QED
      BY <3>1, TuplesAreSequences
  <2>. QED
    BY <2>1, <2>2, <2>3, <2>4, <2>5
<1>2. CASE \E r \in Requests : wire = [method |-> r.method, path |-> r.path, body |-> r.body]
  BY <1>2, RequestsAssumption
<1>. QED
  BY <1>1, <1>2 DEF Sent

\* Whatever was sent goes where the document says.
LEMMA SentRoute ==
    ASSUME Sent
    PROVE  /\ RouteFacts(wire.method, wire.path, Escaped)
           /\ Route.kind = "found" /\ ParamsFit <=> Served(wire.method, wire.path, Escaped)
<1>1. Escaped \in BOOLEAN /\ ((\E i \in DOMAIN wire.path : wire.path[i] = "%2F") => Escaped)
  BY DEF Escaped
<1>2. wire.path \in Seq(ToSet(wire.path))
  BY SentIsSequence DEF IsSequence
<1>3. RouteFacts(wire.method, wire.path, Escaped)
  BY <1>1, <1>2, Routing
<1>. QED
  BY <1>3 DEF Served, Route, ParamsFit

\* Whether the body conforms, what the decoder makes of it and which code it is
\* refused with.
LEMMA DecodingFacts ==
    ASSUME Sent
    PROVE  LET op == Route.op
               framed == wire.body.ctype = JSON /\ wire.body.size = "full" /\ wire.body.text = "object"
           IN  /\ Decoding.code \in {0, 400, 415}
               /\ op = "createOrder" =>
                    /\ Decoding.code = 0 <=> framed /\ ConformingBody(op, wire.body.doc)
                    /\ Decoding.code = 0 =>
                            /\ Decoding.struct = Decode(CreateOrderRequest, wire.body.doc).struct
                            /\ Decoding.struct \in [hull_uuid : UUIDs, engine_uuid : UUIDs,
                                                    shield_uuid : UUIDs \cup {Unset, Null},
                                                    weapon_uuid : UUIDs \cup {Unset, Null}]
               /\ op = "payOrder" =>
                    /\ Decoding.code = 0 <=> framed /\ ConformingBody(op, wire.body.doc)
                    /\ Decoding.code = 0 =>
                            /\ Decoding.struct = Decode(PayOrderRequest, wire.body.doc).struct
                            /\ Decoding.struct.payment_method \in PaymentMethods
               /\ op \notin {"createOrder", "payOrder"} => Decoding.code = 0
<1>. DEFINE body == wire.body
            framed == body.ctype = JSON /\ body.size = "full" /\ body.text = "object"
<1>1. ASSUME NEW schema
      PROVE  LET d == DecodeRequest(body, schema)
             IN  /\ d.code \in {0, 400, 415}
                 /\ d.code = 0 <=> framed /\ Decode(schema, body.doc).ok
                 /\ d.code = 0 => d.struct = Decode(schema, body.doc).struct
  <2>. DEFINE d == DecodeRequest(body, schema)
              decoded == Decode(schema, body.doc)
  <2>1. CASE body.ctype = "" \/ (body.ctype = JSON /\ body.size # "full")
    <3>1. d = Rejection(400)
      BY <2>1 DEF DecodeRequest, JSON
    <3>2. d.code = 400
      BY <3>1 DEF Rejection
    <3>3. ~framed
      BY <2>1 DEF JSON
    <3>. HIDE DEF d, framed
    <3>. QED
      BY <3>2, <3>3 DEF d
  <2>2. CASE body.ctype \notin {"", JSON}
    <3>1. d = Rejection(415)
      BY <2>2 DEF DecodeRequest, JSON
    <3>2. d.code = 415
      BY <3>1 DEF Rejection
    <3>3. ~framed
      BY <2>2
    <3>. HIDE DEF d, framed
    <3>. QED
      BY <3>2, <3>3 DEF d
  <2>3. CASE body.ctype = JSON /\ body.size = "full"
    <3>1. d = IF body.text = "object" /\ decoded.ok
              THEN [code |-> 0, struct |-> decoded.struct]
              ELSE Rejection(400)
      BY <2>3 DEF DecodeRequest, JSON
    <3>. HIDE DEF d, decoded
    <3>. QED
      BY <2>3, <3>1 DEF Rejection, d, decoded
  <2>. QED
    BY <2>1, <2>2, <2>3
<1>2. IsSequence(body.doc)
  BY SentIsSequence
<1>. DEFINE create == DecodeRequest(body, CreateOrderRequest)
            pay == DecodeRequest(body, PayOrderRequest)
<1>3. Route.op = "createOrder" => Decoding = create
  BY DEF Decoding, decodeCreateOrderRequest
<1>4. Route.op = "payOrder" =>
        Decoding = IF pay.code = 0 /\ ~ValidPayOrderRequest(pay.struct) THEN Rejection(400) ELSE pay
  BY DEF Decoding, decodePayOrderRequest
<1>5. Route.op \notin {"createOrder", "payOrder"} => Decoding.code = 0
  BY DEF Decoding
<1>6. /\ create.code \in {0, 400, 415}
      /\ create.code = 0 <=> framed /\ Decode(CreateOrderRequest, body.doc).ok
      /\ create.code = 0 => create.struct = Decode(CreateOrderRequest, body.doc).struct
  BY <1>1
<1>7. /\ pay.code \in {0, 400, 415}
      /\ pay.code = 0 <=> framed /\ Decode(PayOrderRequest, body.doc).ok
      /\ pay.code = 0 => pay.struct = Decode(PayOrderRequest, body.doc).struct
  BY <1>1
<1>. HIDE DEF create, pay, framed, body
<1>8. CASE Route.op = "createOrder"
  <2>1. Decode(CreateOrderRequest, body.doc).ok <=> ConformingBody("createOrder", body.doc)
    BY <1>2, CreateOrderDecoded
  <2>2. Decode(CreateOrderRequest, body.doc).ok =>
            Decode(CreateOrderRequest, body.doc).struct \in
                [hull_uuid : UUIDs, engine_uuid : UUIDs,
                 shield_uuid : UUIDs \cup {Unset, Null}, weapon_uuid : UUIDs \cup {Unset, Null}]
    BY <1>2, CreateOrderDecoded
  <2>. QED
    BY <1>3, <1>6, <1>8, <2>1, <2>2 DEF body, framed
<1>9. CASE Route.op = "payOrder"
  <2>1. Decode(PayOrderRequest, body.doc).ok /\ ValidPayOrderRequest(Decode(PayOrderRequest, body.doc).struct)
            <=> ConformingBody("payOrder", body.doc)
    BY <1>2, PayOrderDecoded
  <2>2. Decoding.code = 0 <=> pay.code = 0 /\ ValidPayOrderRequest(pay.struct)
    BY <1>4, <1>9 DEF Rejection
  <2>3. Decoding.code = 0 => Decoding = pay
    BY <1>4, <1>9 DEF Rejection
  <2>4. Decoding.code \in {0, 400, 415}
    BY <1>4, <1>7, <1>9 DEF Rejection
  <2>5. ValidPayOrderRequest(pay.struct) => pay.struct.payment_method \in PaymentMethods
    BY DEF ValidPayOrderRequest, ValidPaymentMethod
  <2>6. Decoding.code = 0 <=> framed /\ ConformingBody("payOrder", body.doc)
    BY <1>7, <2>1, <2>2
  <2>. QED
    BY <1>7, <1>9, <2>2, <2>3, <2>4, <2>5, <2>6 DEF body, framed
<1>. QED
  BY <1>5, <1>8, <1>9 DEF body

\* What gets through the router and the decoders is what the document allows.
LEMMA AcceptedConforms ==
    ASSUME Sent
    PROVE  Accepted <=> Conforming
<1>. DEFINE documented == Documented(wire.method, wire.path)
            served == Route.kind = "found" /\ ParamsFit
            framed == wire.body.ctype = JSON /\ wire.body.size = "full" /\ wire.body.text = "object"
            conforming == ConformingBody(documented, wire.body.doc)
<1>1. (served <=> documented # "none") /\ (served => Route.op = documented)
  BY SentRoute DEF RouteFacts, Route
<1>2. Conforming <=> /\ documented # "none"
                     /\ documented \in {"createOrder", "payOrder"} => framed /\ conforming
  BY DEF Conforming
<1>3. Accepted <=> served /\ Decoding.code = 0
  BY DEF Accepted
<1>4. served => /\ documented \in {"createOrder", "payOrder"} => (Decoding.code = 0 <=> framed /\ conforming)
                /\ documented \notin {"createOrder", "payOrder"} => Decoding.code = 0
  BY <1>1, DecodingFacts
<1>. HIDE DEF served, framed, conforming, documented
<1>. QED
  BY <1>1, <1>2, <1>3, <1>4

\* The service is called with values of the right types.
LEMMA ServiceCallTypes ==
    ASSUME Sent, Accepted
    PROVE  ServiceCall(Route.op, Route.arg, Decoding.struct) \in Seen
<1>1. Route.op \in Operations
      /\ (Route.op # "createOrder" => Param(Route.arg, Escaped) = <<wire.path[3]>> /\ wire.path[3] \in UUIDs)
  BY SentRoute DEF Accepted, RouteFacts, Route
<1>2. Decoding.code = 0
  BY DEF Accepted
<1>. DEFINE order == Param(Route.arg, Escaped)[1]
            s == Decoding.struct
            c == ServiceCall(Route.op, Route.arg, s)
<1>3. Route.op # "createOrder" => order \in UUIDs
  BY <1>1
<1>4. CASE Route.op = "createOrder"
  <2>1. s \in [hull_uuid : UUIDs, engine_uuid : UUIDs,
               shield_uuid : UUIDs \cup {Unset, Null}, weapon_uuid : UUIDs \cup {Unset, Null}]
    BY <1>2, <1>4, DecodingFacts
  <2>. HIDE DEF s
  <2>2. c = [op |-> "createOrder", order |-> Nothing, input |-> CreateInput(s)]
    BY <1>4 DEF ServiceCall
  <2>3. CreateInput(s) \in [HullUUID : UUIDs, EngineUUID : UUIDs,
                            ShieldUUID : UUIDs \cup {Nothing}, WeaponUUID : UUIDs \cup {Nothing}]
    BY <2>1 DEF CreateInput, Get
  <2>. HIDE DEF c
  <2>4. c \in Seen
    BY <2>2, <2>3 DEF Seen
  <2>. QED
    BY <2>4 DEF c, s
<1>5. CASE Route.op = "payOrder"
  <2>1. s.payment_method \in PaymentMethods
    BY <1>2, <1>5, DecodingFacts
  <2>. HIDE DEF s, order
  <2>2. c = [op |-> "payOrder", order |-> order, input |-> PaymentMethodToModel(s.payment_method)]
    BY <1>5 DEF ServiceCall, order
  <2>3. PaymentMethodToModel(s.payment_method) \in PaymentMethods
    BY <2>1 DEF PaymentMethodToModel
  <2>. HIDE DEF c
  <2>4. c \in Seen
    BY <1>3, <1>5, <2>2, <2>3 DEF Seen
  <2>. QED
    BY <2>4 DEF c, s
<1>6. CASE Route.op \in {"getOrder", "cancelOrder"}
  <2>. HIDE DEF s, order
  <2>2. c = [op |-> Route.op, order |-> order, input |-> Nothing]
    BY <1>6 DEF ServiceCall, order
  <2>. HIDE DEF c
  <2>4. c \in Seen
    BY <1>3, <1>6, <2>2 DEF Seen
  <2>. QED
    BY <2>4 DEF c, s
<1>. QED
  BY <1>1, <1>4, <1>5, <1>6 DEF Operations

-----------------------------------------------------------------------------
(* A call of the generated client, on its way to the API layer.            *)

\* The paths of the four operations are documented, with the methods the client uses.
LEMMA DocumentedCalls ==
    ASSUME NEW u \in UUIDs
    PROVE  /\ Documented("POST", <<Prefix>>) = "createOrder"
           /\ Documented("GET", <<Prefix, "/", u>>) = "getOrder"
           /\ Documented("POST", <<Prefix, "/", u, "/", "pay">>) = "payOrder"
           /\ Documented("POST", <<Prefix, "/", u, "/", "cancel">>) = "cancelOrder"
<1>1. Documented("POST", <<Prefix>>) = "createOrder"
  BY DEF Documented
<1>2. Documented("GET", <<Prefix, "/", u>>) = "getOrder"
  <2>. DEFINE path == <<Prefix, "/", u>>
  <2>1. Len(path) = 3 /\ path[1] = Prefix /\ path[2] = "/" /\ path[3] = u /\ path # <<Prefix>>
    OBVIOUS
  <2>. HIDE DEF path
  <2>2. Documented("GET", path) = "getOrder"
    BY <2>1 DEF Documented
  <2>. QED
    BY <2>2 DEF path
<1>3. ASSUME NEW action, NEW op, <<action, op>> \in {<<"pay", "payOrder">>, <<"cancel", "cancelOrder">>}
      PROVE  Documented("POST", <<Prefix, "/", u, "/", action>>) = op
  <2>. DEFINE path == <<Prefix, "/", u, "/", action>>
              S == {Prefix, "/", u, action}
  <2>1. /\ path \in Seq(S) /\ Len(path) = 5 /\ path[1] = Prefix /\ path[2] = "/" /\ path[3] = u
        /\ path[4] = "/" /\ path[5] = action /\ path # <<Prefix>>
    OBVIOUS
  <2>. HIDE DEF path, S
  <2>. DEFINE tail == SubSeq(path, 4, Len(path))
  <2>2. tail \in Seq(S) /\ Len(tail) = 2 /\ tail[1] = "/" /\ tail[2] = action
    <3>1. tail \in Seq(S) /\ Len(tail) = 2 /\ \A k \in 1 .. 2 : tail[k] = path[3 + k]
      <4>. DEFINE l == 2
      <4>1. 3 \in Nat /\ l \in Nat /\ Len(path) = 3 + l /\ 3 + 1 = 4
        BY <2>1
      <4>. HIDE DEF l
      <4>2. path \in Seq(S)
        BY <2>1
      <4>3. tail \in Seq(S) /\ Len(tail) = l /\ \A k \in 1 .. l : tail[k] = path[3 + k]
        BY <4>1, <4>2, RestFacts
      <4>. QED
        BY <4>3 DEF l
    <3>. HIDE DEF tail
    <3>. QED
      BY <2>1, <3>1
  <2>. HIDE DEF tail
  <2>3. tail = <<"/", action>>
    BY <2>2, IsTwo
  <2>4. <<"/", "pay">> # <<"/", "cancel">>
    OBVIOUS
  <2>5. action \in {"pay", "cancel"} /\ op = IF action = "pay" THEN "payOrder" ELSE "cancelOrder"
    BY <1>3
  <2>6. Documented("POST", path) = op
    BY <2>1, <2>3, <2>4, <2>5 DEF Documented, tail
  <2>. QED
    BY <2>6 DEF path
<1>. QED
  BY <1>1, <1>2, <1>3

\* A call goes to its operation and to its order.
LEMMA CallRoute ==
    ASSUME call \in Calls, wire = WireOf(call)
    PROVE  /\ call.op \in Operations
           /\ Route.kind = "found" /\ ParamsFit /\ Route.op = call.op
           /\ call.op # "createOrder" => Param(Route.arg, Escaped)[1] = call.arg
<1>1. call.op \in {"createOrder", "getOrder", "payOrder", "cancelOrder"}
      /\ (call.op # "createOrder" => call.arg \in UUIDs)
  BY CallsAssumption
<1>2. Documented(wire.method, wire.path) = call.op
      /\ (call.op # "createOrder" => wire.path[3] = call.arg)
  <2>1. CASE call.op = "createOrder"
    <3>1. wire.method = "POST" /\ wire.path = <<Prefix>>
      BY <2>1 DEF WireOf
    <3>2. Documented("POST", <<Prefix>>) = "createOrder"
      BY DEF Documented
    <3>. QED
      BY <2>1, <3>1, <3>2
  <2>2. CASE call.op = "getOrder"
    <3>1. wire.method = "GET" /\ wire.path = <<Prefix, "/", call.arg>>
      BY <2>2 DEF WireOf
    <3>2. Documented("GET", <<Prefix, "/", call.arg>>) = call.op
      BY <1>1, <2>2, DocumentedCalls
    <3>3. <<Prefix, "/", call.arg>>[3] = call.arg
      OBVIOUS
    <3>. QED
      BY <3>1, <3>2, <3>3
  <2>3. CASE call.op = "payOrder"
    <3>1. wire.method = "POST" /\ wire.path = <<Prefix, "/", call.arg, "/", "pay">>
      BY <2>3 DEF WireOf
    <3>2. Documented("POST", <<Prefix, "/", call.arg, "/", "pay">>) = call.op
      BY <1>1, <2>3, DocumentedCalls
    <3>3. <<Prefix, "/", call.arg, "/", "pay">>[3] = call.arg
      OBVIOUS
    <3>. QED
      BY <3>1, <3>2, <3>3
  <2>4. CASE call.op = "cancelOrder"
    <3>1. wire.method = "POST" /\ wire.path = <<Prefix, "/", call.arg, "/", "cancel">>
      BY <2>4 DEF WireOf
    <3>2. Documented("POST", <<Prefix, "/", call.arg, "/", "cancel">>) = call.op
      BY <1>1, <2>4, DocumentedCalls
    <3>3. <<Prefix, "/", call.arg, "/", "cancel">>[3] = call.arg
      OBVIOUS
    <3>. QED
      BY <3>1, <3>2, <3>3
  <2>. QED
    BY <1>1, <2>1, <2>2, <2>3, <2>4
<1>3. Sent
  BY DEF Sent
<1>4. call.op # "none"
  BY <1>1
<1>5. Served(wire.method, wire.path, Escaped)
  BY <1>2, <1>3, <1>4, SentRoute DEF RouteFacts
<1>6. Route.op = call.op /\ (call.op # "createOrder" => Param(Route.arg, Escaped) = <<call.arg>>)
  BY <1>2, <1>3, <1>5, SentRoute DEF RouteFacts, Route
<1>. QED
  BY <1>1, <1>3, <1>5, <1>6, SentRoute DEF Operations

\* A call is read as it was made; only a payment method that does not exist is
\* refused.
LEMMA CallDecoding ==
    ASSUME call \in Calls, wire = WireOf(call)
    PROVE  /\ call.op = "createOrder" => Decoding.code = 0 /\ Decoding.struct = call.struct
           /\ call.op = "payOrder" =>
                /\ Decoding.code = 0 <=> call.struct.payment_method \in PaymentMethods
                /\ Decoding.code = 0 => Decoding.struct = call.struct
           /\ call.op \notin {"createOrder", "payOrder"} => Decoding.code = 0
<1>1. Sent /\ Route.op = call.op
  BY CallRoute DEF Sent
<1>2. CASE call.op = "createOrder"
  <2>1. wire.body = Body(Encode(CreateOrderRequest, call.struct))
    BY <1>2 DEF WireOf
  <2>. DEFINE doc == Encode(CreateOrderRequest, call.struct)
  <2>2. wire.body.doc = doc /\ wire.body.ctype = JSON /\ wire.body.size = "full" /\ wire.body.text = "object"
    BY <2>1 DEF Body
  <2>3. call.struct \in [hull_uuid : UUIDs, engine_uuid : UUIDs,
                         shield_uuid : UUIDs \cup {Unset, Null}, weapon_uuid : UUIDs \cup {Unset, Null}]
    BY <1>2, CallsAssumption
  <2>4. Decode(CreateOrderRequest, doc).ok /\ Decode(CreateOrderRequest, doc).struct = call.struct
    BY <2>3, CreateOrderRequestRead DEF Success
  <2>5. IsSequence(doc)
    BY EncodeIsSequence, CreateOrderRequestFields
  <2>. HIDE DEF doc
  <2>6. ConformingBody("createOrder", doc)
    BY <2>4, <2>5, CreateOrderDecoded
  <2>. QED
    BY <1>1, <1>2, <2>2, <2>4, <2>6, DecodingFacts
<1>3. CASE call.op = "payOrder"
  <2>1. wire.body = Body(Encode(PayOrderRequest, call.struct))
    BY <1>3 DEF WireOf
  <2>. DEFINE doc == Encode(PayOrderRequest, call.struct)
              method == call.struct.payment_method
  <2>2. wire.body.doc = doc /\ wire.body.ctype = JSON /\ wire.body.size = "full" /\ wire.body.text = "object"
    BY <2>1 DEF Body
  <2>3. call.struct = [payment_method |-> method] /\ method \notin {Unset, Null}
    BY <1>3, CallsAssumption
  <2>4. Decode(PayOrderRequest, doc).ok /\ Decode(PayOrderRequest, doc).struct = call.struct
    <3>. HIDE DEF method
    <3>1. LET struct == [payment_method |-> method]
          IN  Decode(PayOrderRequest, Encode(PayOrderRequest, struct)) = Success(struct)
      BY <2>3, PayOrderRequestRead
    <3>. QED
      BY <2>3, <3>1 DEF Success
  <2>5. IsSequence(doc)
    BY EncodeIsSequence, PayOrderRequestFields
  <2>. HIDE DEF doc
  <2>6. ConformingBody("payOrder", doc) <=> ValidPayOrderRequest(call.struct)
    BY <2>4, <2>5, PayOrderDecoded
  <2>7. ValidPayOrderRequest(call.struct) <=> method \in PaymentMethods
    BY DEF ValidPayOrderRequest, ValidPaymentMethod
  <2>. QED
    BY <1>1, <1>3, <2>2, <2>4, <2>6, <2>7, DecodingFacts
<1>4. CASE call.op \notin {"createOrder", "payOrder"}
  BY <1>1, <1>4, DecodingFacts
<1>. QED
  BY <1>2, <1>3, <1>4

-----------------------------------------------------------------------------
(* HTTPInv is inductive.                                                   *)

\* What depends on the request alone.
LEMMA WireStays ==
    ASSUME UNCHANGED <<call, wire>>
    PROVE  /\ Sent' <=> Sent
           /\ Route' = Route
           /\ ParamsFit' <=> ParamsFit
           /\ Decoding' = Decoding
           /\ Accepted' <=> Accepted
           /\ UNCHANGED ServiceCall(Route.op, Route.arg, Decoding.struct)
<1>1. Sent' <=> Sent
  BY DEF Sent
<1>2. Route' = Route /\ (Escaped' <=> Escaped)
  BY DEF Route, Escaped
<1>3. (ParamsFit' <=> ParamsFit) /\ Decoding' = Decoding
  BY <1>2 DEF ParamsFit, Decoding, Route, Escaped
<1>4. Accepted' <=> Accepted
  BY <1>2, <1>3 DEF Accepted
<1>5. UNCHANGED ServiceCall(Route.op, Route.arg, Decoding.struct)
  BY <1>2, <1>3 DEF ServiceCall, Route, Escaped
<1>. QED
  BY <1>1, <1>2, <1>3, <1>4, <1>5

\* What the service was called with does not change either.
LEMMA HandledStays ==
    ASSUME UNCHANGED <<call, wire, seen, answer>>
    PROVE  Handled' <=> Handled
<1>1. /\ Route' = Route /\ (Accepted' <=> Accepted)
      /\ UNCHANGED ServiceCall(Route.op, Route.arg, Decoding.struct)
  BY WireStays
<1>. QED
  BY <1>1 DEF Handled

\* Nothing has been sent.
LEMMA InitHTTPInv ==
    Init => HTTPInv
BY DEF Init, HTTPInv

\* A request is sent.
LEMMA SendKeepsInv ==
    ASSUME HTTPInv, Call \/ OtherSends
    PROVE  HTTPInv'
<1>1. /\ stage = "idle" /\ stage' = "sent"
      /\ UNCHANGED <<seen, answer, reply, result, failed>>
  BY DEF Call, OtherSends, SendTo, sendCreateOrder, sendGetOrder, sendPayOrder, sendCancelOrder
<1>2. Sent'
  <2>1. CASE Call
    <3>1. PICK c \in Calls :
            call' = c /\ (sendCreateOrder(c) \/ sendGetOrder(c) \/ sendPayOrder(c) \/ sendCancelOrder(c))
      BY <2>1 DEF Call
    <3>2. wire' = WireOf(c)
      BY <3>1 DEF sendCreateOrder, sendGetOrder, sendPayOrder, sendCancelOrder, SendTo, WireOf
    <3>. QED
      BY <3>1, <3>2 DEF Sent
  <2>2. CASE OtherSends
    <3>1. call = Nothing
      BY <1>1 DEF HTTPInv
    <3>. QED
      BY <2>2, <3>1 DEF OtherSends, SendTo, Sent
  <2>. QED
    BY <2>1, <2>2
<1>. QED
  BY <1>1, <1>2 DEF HTTPInv

\* The server refuses a request.
LEMMA RefusalKeepsInv ==
    ASSUME HTTPInv, stage \in {"sent", "decode"}, stage' = "replied",
           UNCHANGED <<call, wire, seen, answer, result>>,
           ~Accepted \/ "read" \in failed',
           failed' \subseteq Faults \cap {"read"},
           reply'.code \in {204, 400, 404, 405, 415},
           reply'.ctype = JSON => reply'.doc = <<Entry("error_message", Token("string", "text"))>>
    PROVE  HTTPInv'
<1>1. Sent' /\ (Accepted' <=> Accepted)
  BY WireStays DEF HTTPInv
<1>2. Refused'
  BY <1>1 DEF HTTPInv, Refused
<1>. QED
  BY <1>1, <1>2 DEF HTTPInv

\* The router dispatches the request, or refuses it.
LEMMA ServeKeepsInv ==
    ASSUME HTTPInv, Serve
    PROVE  HTTPInv'
<1>1. Sent /\ Route' = Route /\ Sent'
  BY WireStays DEF HTTPInv, Serve
<1>2. Route.kind \in {"found", "notFound", "notAllowed"}
  BY <1>1, SentRoute DEF RouteFacts, Route
<1>3. CASE Route.kind = "found"
  <2>1. stage' = "decode" /\ UNCHANGED <<call, wire, seen, answer, reply, result, failed>> /\ stage = "sent"
    BY <1>3 DEF Serve
  <2>. QED
    BY <1>1, <1>3, <2>1 DEF HTTPInv
<1>4. CASE Route.kind # "found"
  <2>1. ~Accepted
    BY <1>4 DEF Accepted
  <2>2. stage = "sent" /\ stage' = "replied" /\ UNCHANGED <<call, wire, seen, answer, result, failed>>
    BY <1>2, <1>4 DEF Serve, Respond
  <2>3. reply'.code \in {204, 404, 405} /\ reply'.ctype # JSON
    <3>1. CASE Route.kind = "notFound"
      <4>1. reply' = [code |-> 404, ctype |-> "text/plain", text |-> "malformed", doc |-> <<>>]
        BY <3>1 DEF Serve, Respond
      <4>. QED
        BY <4>1 DEF JSON
    <3>2. CASE Route.kind = "notAllowed"
      <4>1. reply' = [code |-> NotAllowedCode(wire.method), ctype |-> "", text |-> "malformed", doc |-> <<>>]
        BY <3>2 DEF Serve, Respond
      <4>2. reply'.code = NotAllowedCode(wire.method) /\ reply'.ctype = ""
        BY <4>1
      <4>. QED
        BY <4>2 DEF JSON, NotAllowedCode
    <3>. QED
      BY <1>2, <1>4, <3>1, <3>2
  <2>. QED
    BY <2>1, <2>2, <2>3, RefusalKeepsInv DEF HTTPInv
<1>. QED
  BY <1>3, <1>4

\* The parameter or the body is refused, or the body cannot be read.
LEMMA DecodeKeepsInv ==
    ASSUME HTTPInv, DecodeParamsFails \/ DecodeRequestFails \/ ReadFails
    PROVE  HTTPInv'
<1>1. Sent /\ stage = "decode" /\ failed = {}
  BY DEF HTTPInv, DecodeParamsFails, DecodeRequestFails, ReadFails
<1>2. ASSUME NEW code, ErrorHandler(code)
      PROVE  /\ stage' = "replied" /\ reply'.code = code
             /\ reply'.doc = <<Entry("error_message", Token("string", "text"))>>
  BY <1>2 DEF ErrorHandler, Respond
<1>3. CASE DecodeParamsFails
  <2>1. ~Accepted /\ UNCHANGED <<call, wire, seen, answer, result, failed>> /\ ErrorHandler(400)
    BY <1>3 DEF DecodeParamsFails, Accepted
  <2>. QED
    BY <1>1, <1>2, <2>1, RefusalKeepsInv
<1>4. CASE DecodeRequestFails
  <2>1. ~Accepted /\ UNCHANGED <<call, wire, seen, answer, result, failed>> /\ ErrorHandler(Decoding.code)
    BY <1>4 DEF DecodeRequestFails, Accepted
  <2>2. Decoding.code \in {400, 415}
    BY <1>1, <1>4, DecodingFacts DEF DecodeRequestFails
  <2>. QED
    BY <1>1, <1>2, <2>1, <2>2, RefusalKeepsInv
<1>5. CASE ReadFails
  <2>1. UNCHANGED <<call, wire, seen, answer, result>> /\ ErrorHandler(400)
        /\ failed' = {"read"} /\ "read" \in Faults
    BY <1>1, <1>5 DEF ReadFails, Fault
  <2>. QED
    BY <1>1, <1>2, <2>1, RefusalKeepsInv
<1>. QED
  BY <1>3, <1>4, <1>5

\* The service is called, and the API layer answers.
LEMMA HandleKeepsInv ==
    ASSUME HTTPInv, Handle
    PROVE  HTTPInv'
<1>1. /\ stage = "decode" /\ stage' = "encode" /\ UNCHANGED <<call, wire, reply, result, failed>>
      /\ ParamsFit /\ Decoding.code = 0
      /\ seen' = ServiceCall(Route.op, Route.arg, Decoding.struct) /\ answer' \in Answers[Route.op]
  BY DEF Handle
<1>2. Accepted
  BY <1>1 DEF HTTPInv, Accepted
<1>3. Handled'
  <2>1. /\ Route' = Route /\ (Accepted' <=> Accepted)
        /\ UNCHANGED ServiceCall(Route.op, Route.arg, Decoding.struct)
    BY <1>1, WireStays
  <2>. QED
    BY <1>1, <1>2, <2>1 DEF Handled
<1>4. Sent'
  BY <1>1, WireStays DEF HTTPInv
<1>. QED
  BY <1>1, <1>3, <1>4 DEF HTTPInv

\* The answer is written, or only its header.
LEMMA EncodeKeepsInv ==
    ASSUME HTTPInv, EncodeResponse \/ WriteFails
    PROVE  HTTPInv'
<1>1. /\ stage = "encode" /\ stage' = "replied" /\ UNCHANGED <<call, wire, seen, answer, result>>
      /\ failed = {} /\ failed' \subseteq Faults \cap {"write"}
  BY DEF HTTPInv, EncodeResponse, WriteFails, Respond, Fault
<1>2. Handled' /\ Sent' /\ Route' = Route
  BY <1>1, HandledStays, WireStays DEF HTTPInv
<1>3. /\ reply'.code = answer.code
      /\ IF "write" \in failed' THEN reply'.text # "object"
         ELSE /\ reply'.ctype = JSON /\ reply'.text = "object"
              /\ reply'.doc = Encode(Encoded[Route.op][answer.code], answer.struct)
  BY <1>1 DEF EncodeResponse, WriteFails, Respond, Fault
<1>4. Answered'
  BY <1>1, <1>2, <1>3 DEF Answered
<1>. QED
  BY <1>1, <1>2, <1>4 DEF HTTPInv

\* The client reads the reply, or it is lost.
LEMMA ReceiveKeepsInv ==
    ASSUME HTTPInv, Receive \/ LoseReply
    PROVE  HTTPInv'
<1>1. /\ stage = "replied" /\ stage' = "done" /\ UNCHANGED <<call, wire, seen, answer, reply>>
      /\ failed \subseteq failed' /\ failed' \subseteq Faults /\ failed' \subseteq failed \cup {"reply"}
  BY DEF HTTPInv, Receive, LoseReply, Fault
<1>2. Sent' /\ (Handled' <=> Handled) /\ (Accepted' <=> Accepted) /\ Route' = Route
  BY <1>1, HandledStays, WireStays DEF HTTPInv
<1>3. Refused' \/ Answered'
  <2>1. Refused => Refused'
    BY <1>1, <1>2 DEF Refused
  <2>2. Answered => Answered'
    BY <1>1, <1>2 DEF Answered
  <2>. QED
    BY <1>1, <2>1, <2>2 DEF HTTPInv
<1>4. call # Nothing => result' = IF "reply" \in failed' THEN CallFails ELSE DecodeResponse(call.op)
  BY DEF HTTPInv, Receive, LoseReply, Fault
<1>5. DecodeResponse(call.op)' = DecodeResponse(call.op)
  BY <1>1 DEF DecodeResponse
<1>6. CallFails' = CallFails
  BY DEF CallFails
<1>. QED
  BY <1>1, <1>2, <1>3, <1>4, <1>5, <1>6 DEF HTTPInv

\* Every step keeps HTTPInv.
LEMMA NextHTTPInv ==
    HTTPInv /\ [Next]_vars => HTTPInv'
<1>. SUFFICES ASSUME HTTPInv, [Next]_vars PROVE HTTPInv'
  OBVIOUS
<1>1. CASE UNCHANGED vars
  <2>1. UNCHANGED <<stage, call, wire, seen, answer, reply, result, failed>>
    BY <1>1 DEF vars
  <2>2. /\ Sent' <=> Sent
        /\ Handled' <=> Handled
        /\ Accepted' <=> Accepted
        /\ Route' = Route
    BY <2>1, WireStays, HandledStays
  <2>3. (Refused' <=> Refused) /\ (Answered' <=> Answered)
    BY <2>1, <2>2 DEF Refused, Answered
  <2>4. DecodeResponse(call.op)' = DecodeResponse(call.op)
    BY <2>1 DEF DecodeResponse
  <2>. QED
    BY <2>1, <2>2, <2>3, <2>4 DEF HTTPInv, CallFails
<1>. QED
  BY <1>1, SendKeepsInv, ServeKeepsInv, DecodeKeepsInv, HandleKeepsInv, EncodeKeepsInv, ReceiveKeepsInv
     DEF Next

\* In every exchange, whatever is sent and whichever faults strike: at each stage the
\* service has been called with what the request says, if the request gets through the
\* router and the decoders, and not at all otherwise; and the reply is the refusal or the
\* answer that this stage has come to.
THEOREM HTTPInvHolds ==
    Spec => []HTTPInv
BY InitHTTPInv, NextHTTPInv, PTL DEF Spec

-----------------------------------------------------------------------------
(* What HTTPInv says of an exchange.                                       *)

\* The codes of the answers.
LEMMA AnswerCodes ==
    ASSUME NEW op \in Operations, NEW a \in Answers[op]
    PROVE  a.code \in {200, 201, 400, 404, 409, 500}
<1>1. CASE op = "createOrder"
  BY <1>1 DEF Answers, CreateOrderAnswers, ErrorAnswers, Answer
<1>2. CASE op = "getOrder"
  BY <1>2 DEF Answers, GetOrderAnswers, ErrorAnswers, Answer
<1>3. CASE op = "payOrder"
  BY <1>3 DEF Answers, PayOrderAnswers, ErrorAnswers, Answer
<1>4. CASE op = "cancelOrder"
  BY <1>4 DEF Answers, CancelOrderAnswers, ErrorAnswers, Answer
<1>. QED
  BY <1>1, <1>2, <1>3, <1>4 DEF Operations

\* When the service has been called, it was with values of the right types, for
\* one of the operations, and there is an answer.
LEMMA HandledFacts ==
    ASSUME Sent, Handled
    PROVE  /\ Route.op \in Operations
           /\ seen \in Seen /\ seen # Nothing
           /\ answer \in Answers[Route.op] /\ answer # Nothing
<1>1. Route.op \in Operations
  BY SentRoute DEF Handled, Accepted, RouteFacts, Route
<1>2. seen \in Seen
  BY ServiceCallTypes DEF Handled
<1>. QED
  BY <1>1, <1>2, NothingAssumption DEF Handled

\* The types: of the service's arguments and of the codes of the replies.
LEMMA InvTypes ==
    HTTPInv => Types
<1>. SUFFICES ASSUME HTTPInv PROVE Types
  OBVIOUS
<1>1. stage \in {"idle", "sent", "decode", "encode", "replied", "done"} /\ failed \subseteq Faults
  BY DEF HTTPInv
<1>2. call \in Calls \cup {Nothing}
  BY DEF HTTPInv, Sent
<1>3. CASE stage \in {"idle", "sent", "decode"}
  BY <1>1, <1>2, <1>3 DEF HTTPInv, Types
<1>4. CASE Sent /\ Handled /\ reply = Nothing
  BY <1>1, <1>2, <1>4, HandledFacts DEF Types
<1>5. CASE Sent /\ Answered
  <2>1. reply.code \in {200, 201, 400, 404, 409, 500}
    BY <1>5, HandledFacts, AnswerCodes DEF Answered
  <2>2. seen \in Seen /\ answer \in Answers[Route.op]
    BY <1>5, HandledFacts DEF Answered
  <2>. QED
    BY <1>1, <1>2, <2>1, <2>2 DEF Types
<1>6. CASE Refused
  BY <1>1, <1>2, <1>6 DEF Refused, Types
<1>. QED
  BY <1>3, <1>4, <1>5, <1>6 DEF HTTPInv

\* A request that was sent is routed as documented.
LEMMA InvRoutesAsDocumented ==
    HTTPInv => RoutesAsDocumented
<1>. SUFFICES ASSUME HTTPInv, wire # Nothing PROVE RoutesAsDocumented
  BY DEF RoutesAsDocumented
<1>1. Sent
  BY DEF HTTPInv
<1>. QED
  BY <1>1, SentRoute DEF RoutesAsDocumented, RouteFacts, Route

\* What gets through is what the document allows.
LEMMA InvAcceptsWhatIsDocumented ==
    HTTPInv => AcceptsWhatIsDocumented
<1>. SUFFICES ASSUME HTTPInv PROVE AcceptsWhatIsDocumented
  OBVIOUS
<1>1. CASE stage \in {"idle", "sent", "decode"}
  BY <1>1 DEF HTTPInv, AcceptsWhatIsDocumented
<1>2. CASE stage \in {"encode", "replied", "done"}
  <2>1. Sent /\ (Accepted <=> Conforming)
    BY <1>2, AcceptedConforms DEF HTTPInv
  <2>2. CASE Handled
    BY <2>1, <2>2, HandledFacts DEF Handled, AcceptsWhatIsDocumented
  <2>3. CASE Refused
    BY <2>1, <2>3 DEF Refused, AcceptsWhatIsDocumented
  <2>. QED
    BY <1>2, <2>2, <2>3 DEF HTTPInv, Answered
<1>. QED
  BY <1>1, <1>2 DEF HTTPInv

\* A call gets through as it was made.
LEMMA InvHandlerGetsWhatWasAsked ==
    HTTPInv => HandlerGetsWhatWasAsked
<1>. SUFFICES ASSUME HTTPInv, call # Nothing, stage \in {"encode", "replied", "done"}, "read" \notin failed
              PROVE  HandlerGetsWhatWasAsked
  BY DEF HandlerGetsWhatWasAsked
<1>1. call \in Calls /\ wire = WireOf(call) /\ Sent
  BY DEF HTTPInv, Sent
<1>2. /\ call.op \in Operations
      /\ Route.kind = "found" /\ ParamsFit /\ Route.op = call.op
      /\ call.op # "createOrder" => Param(Route.arg, Escaped)[1] = call.arg
  BY <1>1, CallRoute
<1>3. (Accepted => Handled) /\ (~Accepted => seen = Nothing)
  BY DEF HTTPInv, Handled, Answered, Refused
<1>4. Accepted <=> Decoding.code = 0
  BY <1>2 DEF Accepted
<1>5. Accepted => seen # Nothing /\ seen = ServiceCall(Route.op, Route.arg, Decoding.struct)
  BY <1>1, <1>3, HandledFacts DEF Handled
<1>6. CASE call.op = "createOrder"
  <2>. DEFINE s == call.struct
  <2>1. s \in [hull_uuid : UUIDs, engine_uuid : UUIDs,
               shield_uuid : UUIDs \cup {Unset, Null}, weapon_uuid : UUIDs \cup {Unset, Null}]
    BY <1>1, <1>6, CallsAssumption
  <2>2. seen # Nothing /\ seen = ServiceCall("createOrder", Route.arg, s)
    BY <1>1, <1>2, <1>4, <1>5, <1>6, CallDecoding
  <2>. HIDE DEF s
  <2>3. seen = [op |-> "createOrder", order |-> Nothing, input |-> CreateInput(s)]
    BY <2>2 DEF ServiceCall
  <2>4. seen.op = "createOrder" /\ seen.input = CreateInput(s)
    BY <2>3
  <2>5. \A opt \in UUIDs \cup {Unset, Null} : Get(opt) = IF opt \in UUIDs THEN opt ELSE Nothing
    BY OptAssumption DEF Get
  <2>6. /\ seen.input.HullUUID = s.hull_uuid /\ seen.input.EngineUUID = s.engine_uuid
        /\ seen.input.ShieldUUID = IF s.shield_uuid \in UUIDs THEN s.shield_uuid ELSE Nothing
        /\ seen.input.WeaponUUID = IF s.weapon_uuid \in UUIDs THEN s.weapon_uuid ELSE Nothing
    BY <2>1, <2>4, <2>5 DEF CreateInput
  <2>7. \A field \in {<<seen.input.ShieldUUID, s.shield_uuid>>, <<seen.input.WeaponUUID, s.weapon_uuid>>} :
            field[1] = IF field[2] \in UUIDs THEN field[2] ELSE Nothing
    BY <2>6
  <2>. QED
    BY <1>6, <2>2, <2>4, <2>6, <2>7 DEF HandlerGetsWhatWasAsked, s
<1>7. CASE call.op = "payOrder"
  <2>. DEFINE method == call.struct.payment_method
  <2>1. Accepted <=> method \in PaymentMethods
    BY <1>1, <1>4, <1>7, CallDecoding
  <2>2. CASE method \notin PaymentMethods
    BY <1>3, <1>7, <2>1, <2>2 DEF HandlerGetsWhatWasAsked
  <2>3. CASE method \in PaymentMethods
    <3>1. seen # Nothing /\ seen = ServiceCall("payOrder", Route.arg, call.struct)
      BY <1>1, <1>2, <1>4, <1>5, <1>7, <2>1, <2>3, CallDecoding
    <3>. DEFINE order == Param(Route.arg, Escaped)[1]
    <3>. HIDE DEF method, order
    <3>2. seen = [op |-> "payOrder", order |-> order, input |-> method]
      BY <2>3, <3>1 DEF ServiceCall, PaymentMethodToModel, order, method
    <3>3. order = call.arg
      BY <1>2, <1>7 DEF order
    <3>4. seen.op = call.op /\ seen.order = call.arg /\ seen.input = method
      BY <1>7, <3>2, <3>3
    <3>. QED
      BY <1>7, <2>3, <3>1, <3>4 DEF HandlerGetsWhatWasAsked, method
  <2>. QED
    BY <2>2, <2>3
<1>8. CASE call.op \in {"getOrder", "cancelOrder"}
  <2>1. seen # Nothing /\ seen = ServiceCall(call.op, Route.arg, Decoding.struct)
    BY <1>1, <1>2, <1>4, <1>5, <1>8, CallDecoding
  <2>. DEFINE order == Param(Route.arg, Escaped)[1]
  <2>. HIDE DEF order
  <2>2. seen = [op |-> call.op, order |-> order, input |-> Nothing]
    BY <1>8, <2>1 DEF ServiceCall, order
  <2>3. order = call.arg
    BY <1>2, <1>8 DEF order
  <2>4. seen.op = call.op /\ seen.order = call.arg
    BY <2>2, <2>3
  <2>. QED
    BY <1>8, <2>1, <2>4 DEF HandlerGetsWhatWasAsked
<1>. QED
  BY <1>2, <1>6, <1>7, <1>8 DEF Operations

\* Both ends have the same types under the same codes; those of the errors are
\* all Error.
LEMMA CodedFacts ==
    /\ Decoded = Encoded
    /\ \A op \in Operations : \A code \in DOMAIN Encoded[op] \ {200, 201} : Encoded[op][code] = Error
    /\ {400, 404, 409, 500} \subseteq DOMAIN Encoded["createOrder"]
    /\ {400, 404, 409, 500} \subseteq DOMAIN Encoded["payOrder"]
    /\ {404, 409, 500} \subseteq DOMAIN Encoded["cancelOrder"]
    /\ {404, 500} \subseteq DOMAIN Encoded["getOrder"]
    /\ 201 \in DOMAIN Encoded["createOrder"] /\ Encoded["createOrder"][201] = CreateOrderResponse
    /\ 200 \in DOMAIN Encoded["payOrder"] /\ Encoded["payOrder"][200] = PayOrderResponse
    /\ 200 \in DOMAIN Encoded["cancelOrder"] /\ Encoded["cancelOrder"][200] = CancelOrderResponse
    /\ 200 \in DOMAIN Encoded["getOrder"] /\ Encoded["getOrder"][200] = OrderDto
<1>1. Decoded = Encoded
  BY DEF Decoded, Encoded, DecodedCreateOrder, DecodedPayOrder, DecodedCancelOrder, DecodedGetOrder,
         EncodedCreateOrder, EncodedPayOrder, EncodedCancelOrder, EncodedGetOrder
<1>2. /\ DOMAIN Encoded["createOrder"] = {201, 400, 404, 409, 500}
      /\ Encoded["createOrder"][201] = CreateOrderResponse
      /\ \A code \in {400, 404, 409, 500} : Encoded["createOrder"][code] = Error
  <2>1. Encoded["createOrder"] = EncodedCreateOrder
    BY DEF Encoded
  <2>2. /\ DOMAIN EncodedCreateOrder = {201, 400, 404, 409, 500}
        /\ EncodedCreateOrder[201] = CreateOrderResponse
        /\ \A code \in {400, 404, 409, 500} : EncodedCreateOrder[code] = Error
    BY DEF EncodedCreateOrder, CreateOrderErrors, Coded, AsError
  <2>. QED
    BY <2>1, <2>2
<1>3. /\ DOMAIN Encoded["payOrder"] = {200, 400, 404, 409, 500}
      /\ Encoded["payOrder"][200] = PayOrderResponse
      /\ \A code \in {400, 404, 409, 500} : Encoded["payOrder"][code] = Error
  <2>1. Encoded["payOrder"] = EncodedPayOrder
    BY DEF Encoded
  <2>2. /\ DOMAIN EncodedPayOrder = {200, 400, 404, 409, 500}
        /\ EncodedPayOrder[200] = PayOrderResponse
        /\ \A code \in {400, 404, 409, 500} : EncodedPayOrder[code] = Error
    BY DEF EncodedPayOrder, PayOrderErrors, Coded, AsError
  <2>. QED
    BY <2>1, <2>2
<1>4. /\ DOMAIN Encoded["cancelOrder"] = {200, 400, 404, 409, 500}
      /\ Encoded["cancelOrder"][200] = CancelOrderResponse
      /\ \A code \in {400, 404, 409, 500} : Encoded["cancelOrder"][code] = Error
  <2>1. Encoded["cancelOrder"] = EncodedCancelOrder
    BY DEF Encoded
  <2>2. /\ DOMAIN EncodedCancelOrder = {200, 400, 404, 409, 500}
        /\ EncodedCancelOrder[200] = CancelOrderResponse
        /\ \A code \in {400, 404, 409, 500} : EncodedCancelOrder[code] = Error
    BY DEF EncodedCancelOrder, CancelOrderErrors, Coded, AsError
  <2>. QED
    BY <2>1, <2>2
<1>5. /\ DOMAIN Encoded["getOrder"] = {200, 400, 404, 500}
      /\ Encoded["getOrder"][200] = OrderDto
      /\ \A code \in {400, 404, 500} : Encoded["getOrder"][code] = Error
  <2>1. Encoded["getOrder"] = EncodedGetOrder
    BY DEF Encoded
  <2>2. /\ DOMAIN EncodedGetOrder = {200, 400, 404, 500}
        /\ EncodedGetOrder[200] = OrderDto
        /\ \A code \in {400, 404, 500} : EncodedGetOrder[code] = Error
    BY DEF EncodedGetOrder, GetOrderErrors, Coded, AsError
  <2>. QED
    BY <2>1, <2>2
<1>6. \A op \in Operations : \A code \in DOMAIN Encoded[op] \ {200, 201} : Encoded[op][code] = Error
  BY <1>2, <1>3, <1>4, <1>5 DEF Operations
<1>. QED
  BY <1>1, <1>2, <1>3, <1>4, <1>5, <1>6

\* The client makes this struct of an answer.
ReadAs(op, a, got) ==
    /\ a.code \in DOMAIN Encoded[op]
    /\ Decode(Encoded[op][a.code], Encode(Encoded[op][a.code], a.struct)) = Success(got)
    /\ ValidatorOf(op, a.code, got)
    /\ ToTheSecond(got, a.struct)

\* Without created_at that is the struct of the answer.
LEMMA SameToTheSecond ==
    ASSUME NEW struct, "created_at" \notin DOMAIN struct
    PROVE  ToTheSecond(struct, struct)
BY DEF ToTheSecond

\* What the client makes of an answer: the answer, to the second.
LEMMA AnswerRead ==
    ASSUME NEW op \in Operations, NEW a \in Answers[op]
    PROVE  \E got : ReadAs(op, a, got)
<1>1. ASSUME a \in ErrorAnswers({400, 404, 409, 500}), a.code \in DOMAIN Encoded[op]
      PROVE  ReadAs(op, a, a.struct)
  <2>1. PICK code \in {400, 404, 409, 500} : a = Answer(code, [code |-> code, message |-> "text"])
    BY <1>1 DEF ErrorAnswers
  <2>2. a.code = code /\ a.struct = [code |-> code, message |-> "text"]
    BY <2>1 DEF Answer
  <2>3. Encoded[op][a.code] = Error /\ code \in Int /\ code # 200
    BY <1>1, <2>2, CodedFacts
  <2>4. Decode(Error, Encode(Error, a.struct)) = Success(a.struct)
    BY <2>2, <2>3, ErrorRead
  <2>5. ToTheSecond(a.struct, a.struct)
    BY <2>2, SameToTheSecond
  <2>. QED
    BY <1>1, <2>2, <2>3, <2>4, <2>5 DEF ValidatorOf, ReadAs
<1>2. ASSUME NEW codes, NEW e \in ErrorAnswers(codes) PROVE e.code \in codes
  BY DEF ErrorAnswers, Answer
<1>3. ASSUME NEW codes \in SUBSET {400, 404, 409, 500}
      PROVE  ErrorAnswers(codes) \subseteq ErrorAnswers({400, 404, 409, 500})
  <2>. DEFINE all == {400, 404, 409, 500}
  <2>. HIDE DEF all
  <2>1. codes \subseteq all
    BY DEF all
  <2>2. ASSUME NEW e \in ErrorAnswers(codes) PROVE e \in ErrorAnswers(all)
    <3>1. PICK code \in codes : e = Answer(code, [code |-> code, message |-> "text"])
      BY DEF ErrorAnswers
    <3>. QED
      BY <2>1, <3>1 DEF ErrorAnswers
  <2>. QED
    BY <2>2 DEF all
<1>4. CASE op = "createOrder"
  <2>1. ASSUME NEW o \in Orders, a = Answer(201, [order_uuid |-> o.OrderUUID, total_price |-> o.TotalPrice])
        PROVE  \E got : ReadAs(op, a, got)
    <3>1. a.code = 201 /\ a.struct = [order_uuid |-> o.OrderUUID, total_price |-> o.TotalPrice]
      BY <2>1 DEF Answer
    <3>2. o.OrderUUID \in UUIDs /\ o.TotalPrice \in Int
      BY OrdersAssumption
    <3>3. Decode(CreateOrderResponse, Encode(CreateOrderResponse, a.struct)) = Success(a.struct)
      BY <3>1, <3>2, CreateOrderResponseRead
    <3>4. ToTheSecond(a.struct, a.struct)
      BY <3>1, SameToTheSecond
    <3>5. ReadAs(op, a, a.struct)
      BY <1>4, <3>1, <3>3, <3>4, CodedFacts DEF ValidatorOf, ReadAs
    <3>. QED
      BY <3>5
  <2>2. CASE a \in ErrorAnswers({400, 404, 409, 500})
    BY <1>1, <1>2, <1>4, <2>2, CodedFacts
  <2>3. Answers[op] = CreateOrderAnswers
    BY <1>4 DEF Answers
  <2>4. a \in ErrorAnswers({400, 404, 409, 500})
        \/ \E o \in Orders : a = Answer(201, [order_uuid |-> o.OrderUUID, total_price |-> o.TotalPrice])
    <3>. DEFINE Created(o) == Answer(201, [order_uuid |-> o.OrderUUID, total_price |-> o.TotalPrice])
    <3>1. a \in {Created(o) : o \in Orders} \cup ErrorAnswers({400, 404, 409, 500})
      BY <2>3 DEF CreateOrderAnswers
    <3>. HIDE DEF Created
    <3>2. a \in ErrorAnswers({400, 404, 409, 500}) \/ \E o \in Orders : a = Created(o)
      BY <3>1
    <3>. QED
      BY <3>2 DEF Created
  <2>. QED
    BY <2>1, <2>2, <2>4
<1>5. CASE op = "getOrder"
  <2>1. ASSUME NEW o \in Orders, a = Answer(200, OrderToDTO(o))
        PROVE  \E got : ReadAs(op, a, got)
    <3>1. a.code = 200 /\ a.struct = OrderToDTO(o)
      BY <2>1 DEF Answer
    <3>. DEFINE got == AsWritten(OrderDto, a.struct)
    <3>2. /\ Decode(OrderDto, Encode(OrderDto, a.struct)) = Success(got) /\ ValidOrderDto(got)
          /\ ToTheSecond(got, a.struct)
      BY <3>1, OrderDtoRead
    <3>. HIDE DEF got
    <3>3. ReadAs(op, a, got)
      BY <1>5, <3>1, <3>2, CodedFacts DEF ValidatorOf, ReadAs
    <3>. QED
      BY <3>3
  <2>2. CASE a \in ErrorAnswers({404, 500})
    <3>1. a.code \in {404, 500} /\ a \in ErrorAnswers({400, 404, 409, 500})
      BY <1>2, <1>3, <2>2
    <3>. QED
      BY <1>1, <1>5, <3>1, CodedFacts
  <2>. QED
    BY <1>5, <2>1, <2>2 DEF Answers, GetOrderAnswers
<1>6. CASE op = "payOrder"
  <2>1. ASSUME NEW u \in UUIDs, a = Answer(200, [transaction_uuid |-> u])
        PROVE  \E got : ReadAs(op, a, got)
    <3>1. a.code = 200 /\ a.struct = [transaction_uuid |-> u]
      BY <2>1 DEF Answer
    <3>2. Decode(PayOrderResponse, Encode(PayOrderResponse, a.struct)) = Success(a.struct)
      BY <3>1, PayOrderResponseRead
    <3>3. ToTheSecond(a.struct, a.struct)
      BY <3>1, SameToTheSecond
    <3>4. ReadAs(op, a, a.struct)
      BY <1>6, <3>1, <3>2, <3>3, CodedFacts DEF ValidatorOf, ReadAs
    <3>. QED
      BY <3>4
  <2>2. CASE a \in ErrorAnswers({400, 404, 409, 500})
    BY <1>1, <1>2, <1>6, <2>2, CodedFacts
  <2>3. Answers[op] = PayOrderAnswers
    BY <1>6 DEF Answers
  <2>4. a \in ErrorAnswers({400, 404, 409, 500})
        \/ \E u \in UUIDs : a = Answer(200, [transaction_uuid |-> u])
    BY <2>3 DEF PayOrderAnswers
  <2>. QED
    BY <2>1, <2>2, <2>4
<1>7. CASE op = "cancelOrder"
  <2>1. CASE a = Answer(200, <<>>)
    <3>1. a.code = 200 /\ a.struct = <<>>
      BY <2>1 DEF Answer
    <3>2. ToTheSecond(a.struct, a.struct)
      BY <3>1, SameToTheSecond
    <3>3. ReadAs(op, a, a.struct)
      BY <1>7, <3>1, <3>2, CancelOrderResponseRead, CodedFacts DEF ValidatorOf, ReadAs
    <3>. QED
      BY <3>3
  <2>2. CASE a \in ErrorAnswers({404, 409, 500})
    <3>1. a.code \in {404, 409, 500} /\ a \in ErrorAnswers({400, 404, 409, 500})
      BY <1>2, <1>3, <2>2
    <3>. QED
      BY <1>1, <1>7, <3>1, CodedFacts
  <2>. QED
    BY <1>7, <2>1, <2>2 DEF Answers, CancelOrderAnswers
<1>. QED
  BY <1>4, <1>5, <1>6, <1>7 DEF Operations

\* What the default error handler writes is none of the documented errors.
LEMMA ErrorHandlerUnread ==
    ~Decode(Error, <<Entry("error_message", Token("string", "text"))>>).ok
<1>. DEFINE doc == <<Entry("error_message", Token("string", "text"))>>
<1>1. ToSet(doc) = {Entry("error_message", Token("string", "text"))}
  BY DEF ToSet
<1>2. \A e \in ToSet(doc) : e.key = "error_message"
  BY <1>1 DEF Entry
<1>. HIDE DEF doc
<1>3. "code" \in Required(Error)
  BY ErrorFields DEF Required, Field
<1>4. "code" \notin {e.key : e \in {f \in ToSet(doc) : f.key \in Names(Error)}}
  BY <1>2
<1>. QED
  BY <1>3, <1>4, DecodeFacts DEF doc

\* The client takes no refusal for an answer, and reads an answer as it was given.
LEMMA InvClientGetsTheAnswer ==
    HTTPInv => ClientGetsTheAnswer
<1>. SUFFICES ASSUME HTTPInv, call # Nothing, stage = "done" PROVE ClientGetsTheAnswer
  BY DEF ClientGetsTheAnswer
<1>. DEFINE op == call.op
<1>1. call \in Calls /\ wire = WireOf(call) /\ Sent
  BY DEF HTTPInv, Sent
<1>2. op \in Operations /\ Route.op = op
  BY <1>1, CallRoute
<1>3. result = IF "reply" \in failed THEN CallFails ELSE DecodeResponse(op)
  BY DEF HTTPInv
<1>4. \A fault \in failed : fault \in {"read", "write", "reply"}
  BY DEF HTTPInv
<1>. HIDE DEF op
<1>5. CASE Refused
  <2>1. DecodeResponse(op) = CallFails
    <3>1. CASE reply.code \notin DOMAIN Decoded[op] \/ reply.ctype # JSON
      BY <3>1 DEF DecodeResponse
    <3>2. CASE reply.code \in DOMAIN Decoded[op] /\ reply.ctype = JSON
      <4>1. Decoded[op][reply.code] = Error
        BY <1>2, <1>5, <3>2, CodedFacts DEF Refused
      <4>2. ~Decode(Decoded[op][reply.code], reply.doc).ok
        BY <1>5, <3>2, <4>1, ErrorHandlerUnread DEF Refused
      <4>. QED
        BY <4>2 DEF DecodeResponse
    <3>. QED
      BY <3>1, <3>2
  <2>2. answer = Nothing /\ result = CallFails
    BY <1>3, <1>5, <2>1 DEF Refused
  <2>. QED
    BY <2>2 DEF ClientGetsTheAnswer
<1>6. CASE Answered
  <2>1. answer \in Answers[op] /\ answer # Nothing
    BY <1>1, <1>2, <1>6, HandledFacts DEF Answered
  <2>2. CASE "write" \in failed
    <3>1. DecodeResponse(op) = CallFails
      BY <1>6, <2>2 DEF Answered, DecodeResponse
    <3>2. result = CallFails /\ failed # {}
      BY <1>3, <2>2, <3>1
    <3>. QED
      BY <3>2 DEF ClientGetsTheAnswer
  <2>3. CASE "write" \notin failed
    <3>. DEFINE schema == Decoded[op][reply.code]
    <3>1. /\ reply.ctype = JSON /\ reply.text = "object" /\ reply.code = answer.code
          /\ reply.doc = Encode(Encoded[op][answer.code], answer.struct)
      BY <1>2, <1>6, <2>3 DEF Answered
    <3>10. PICK got : ReadAs(op, answer, got)
      BY <1>2, <2>1, AnswerRead
    <3>2. reply.code \in DOMAIN Decoded[op] /\ Decode(schema, reply.doc) = Success(got)
      BY <3>1, <3>10, CodedFacts DEF ReadAs
    <3>. HIDE DEF schema
    <3>3. Decode(schema, reply.doc).ok /\ Decode(schema, reply.doc).struct = got
      BY <3>2 DEF Success
    <3>4. ValidatorOf(op, reply.code, got) /\ ToTheSecond(got, answer.struct)
      BY <3>1, <3>10 DEF ReadAs
    <3>5. DecodeResponse(op) = Returned(answer.code, got)
      BY <3>1, <3>2, <3>3, <3>4 DEF DecodeResponse, schema
    <3>6. CASE "reply" \in failed
      <4>1. result = CallFails /\ failed # {}
        BY <1>3, <3>6
      <4>. QED
        BY <4>1 DEF ClientGetsTheAnswer
    <3>7. CASE "reply" \notin failed
      <4>1. \A fault \in failed : FALSE
        BY <1>4, <1>6, <2>3, <3>7 DEF Answered
      <4>2. failed = {} /\ result = Returned(answer.code, got)
        BY <1>3, <3>5, <3>7, <4>1
      <4>3. result.kind = "answer" /\ result.code = answer.code /\ result.struct = got
        BY <4>2 DEF Returned
      <4>. QED
        BY <2>1, <3>4, <4>2, <4>3 DEF ClientGetsTheAnswer
    <3>. QED
      BY <3>6, <3>7
  <2>. QED
    BY <2>2, <2>3
<1>. QED
  BY <1>5, <1>6 DEF HTTPInv

-----------------------------------------------------------------------------
(* The theorems.                                                           *)

\* Whatever other programs send, the service is only called with UUIDs and payment
\* methods where it expects them.
THEOREM HTTPTypes ==
    Spec => []Types
BY HTTPInvHolds, InvTypes, PTL

\* The generated router and FindPath serve exactly the documented paths, for paths of any
\* length and any pieces, escaped slashes included.
THEOREM RoutesHold ==
    Spec => []RoutesAsDocumented
BY HTTPInvHolds, InvRoutesAsDocumented, PTL

\* The service is called for exactly the requests that the OpenAPI document allows, for
\* bodies with any number of entries.
THEOREM AcceptanceHolds ==
    Spec => []AcceptsWhatIsDocumented
BY HTTPInvHolds, InvAcceptsWhatIsDocumented, PTL

\* What a call of the generated client says is what the service is called with.
THEOREM RequestsArrive ==
    Spec => []HandlerGetsWhatWasAsked
BY HTTPInvHolds, InvHandlerGetsWhatWasAsked, PTL

\* What the call returns is what the API layer answered, its instants in whole seconds, or
\* an error if the exchange failed.
THEOREM AnswersArrive ==
    Spec => []ClientGetsTheAnswer
BY HTTPInvHolds, InvClientGetsTheAnswer, PTL
=============================================================================
