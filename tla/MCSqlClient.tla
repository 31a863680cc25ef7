---------------------------- MODULE MCSqlClient ----------------------------
\* Model checking of SqlClient: columns of types with and without a width, where
\* a width has two values, of a foreign type, of none, and one that may be null.
EXTENDS SqlClient

MCTypes ==
    {type \in SeafowlArrowTypes : type.name \in {"utf8", "bool", "floatingpoint"}}
        \cup [name : {"int"}, bitWidth : {8, 32, 64}] \cup {Nothing}
MCColumns ==
    {Column(type, FALSE) : type \in MCTypes}
        \cup {Column([name |-> "int", bitWidth |-> 64], TRUE)}
=============================================================================
