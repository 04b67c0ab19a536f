----------------------------- MODULE CategoryBook -----------------------------
(***************************************************************************)
(* What the category and material endpoints promise together, each request *)
(* taking effect at once: names are unique, a category is deleted only     *)
(* when nothing is filed under it, a material is filed under a category    *)
(* that exists, and a start puts the default category back.                *)
(***************************************************************************)
EXTENDS Integers

CONSTANTS CatIds, MatIds, Names, DefaultName, NoName, NoCat, NoMat

VARIABLES names, filed   \* category -> its name, material -> its category

Unused(n) == \A c \in CatIds : names[c] # n

Open(c, n) ==
    /\ names[c] = NoName /\ Unused(n) /\ c # 0
    /\ names' = [names EXCEPT ![c] = n]
    /\ UNCHANGED filed

Rename(c, n) ==
    /\ names[c] # NoName /\ Unused(n)
    /\ names' = [names EXCEPT ![c] = n]
    /\ UNCHANGED filed

Close(c) ==
    /\ names[c] # NoName /\ \A m \in MatIds : filed[m] # c
    /\ names' = [names EXCEPT ![c] = NoName]
    /\ UNCHANGED filed

File(m, c) ==
    /\ filed[m] = NoMat /\ names[c] # NoName
    /\ filed' = [filed EXCEPT ![m] = c]
    /\ UNCHANGED names

Seed ==
    /\ names[0] = NoName /\ Unused(DefaultName)
    /\ names' = [names EXCEPT ![0] = DefaultName]
    /\ UNCHANGED filed

Init == /\ names = [c \in CatIds |-> NoName]
        /\ filed = [m \in MatIds |-> NoMat]

Next == \/ \E c \in CatIds, n \in Names : Open(c, n) \/ Rename(c, n)
        \/ \E c \in CatIds : Close(c)
        \/ \E m \in MatIds, c \in CatIds : File(m, c)
        \/ Seed

Spec == Init /\ [][Next]_<<names, filed>>
=============================================================================
