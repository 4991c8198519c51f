--------------------------- MODULE MCSymbolTable ---------------------------
(* Instances of SymbolTable for TLC. *)
EXTENDS SymbolTable, TLC

CONSTANTS t1, t2, t3

MCAttributes == {"Symmetric", "Antisymmetric", "Linear"}

\* One attribute set in two orders, and another set in a list as long that
\* names an attribute twice, and in one that does not.
MCAttributeLists == {<<"Symmetric", "Linear">>, <<"Linear", "Symmetric">>,
                     <<"Linear", "Linear">>, <<"Linear">>}

\* The same name in two namespaces.
MCPairs == {<<<<"a">>, <<"x">>>>, <<<<"b">>, <<"x">>>>}

\* The calls: one name is asked for with every list, its rival with one.
MCRequests == [pair : {<<<<"a">>, <<"x">>>>}, attributes : MCAttributeLists]
                \cup [pair : {<<<<"b">>, <<"x">>>>}, attributes : {<<"Symmetric", "Linear">>}]
=============================================================================
