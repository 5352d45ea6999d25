----------------------------- MODULE MCPortals ------------------------------
(* An instance of Portals for TLC. *)
EXTENDS Portals, TLC

\* Addresses that share three, two, one and no numbers with another, and one whose
\* third number only begins with the same digit.
A1 == <<10, 0, 1, 1>>
A2 == <<10, 0, 2, 1>>
A3 == <<192, 168, 0, 1>>
B1 == <<10, 0, 1, 2>>
B2 == <<10, 0, 12, 2>>
B3 == <<10, 7, 0, 2>>
B4 == <<192, 168, 0, 2>>

ListA == <<A3, A2, A1>>
ListB == <<B4, B3, B2, B1>>

\* The name has one address, two of one controller, or one that no interface has.
OfOneController == {{A1}, {A1, A3}, {B2}, {B1, B4}, {<<172, 16, 0, 1>>}}

=============================================================================
