------------------------------ MODULE MCPipeline ------------------------------
(* Small instances of Pipeline for TLC. *)
EXTENDS Pipeline

CONSTANTS x, y

\* A short and a long text; all other data have one cell.
LengthVal == [d \in Texts \cup Events \cup CloseMsgs |-> IF d = y THEN 2 ELSE 1]

Req(type, list, d) == [type |-> type, conns |-> list, data |-> d]

\* Texts to one connection and to several; binding and closing one, with and without
\* a reason.
OneAndMany ==
    {Req("PROTO", <<1>>, y), Req("PROTO", <<1, 2, 2>>, x), Req("BIND", <<2>>, "bind"),
     Req("CLOSE", <<2>>, "close"), Req("CLOSE", <<2>>, "quiet")}
OnlyBind == {Req("BIND", <<1>>, "bind")}
ToBoth == {<<1>>, <<1, 2>>}
Nowhere == {}
===============================================================================
