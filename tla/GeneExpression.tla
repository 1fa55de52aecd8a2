---------------------------- MODULE GeneExpression ----------------------------
(***************************************************************************)
(* What a regulatory network promises, concentrations and loops left out:  *)
(* who produces what, and who may refer to it.                             *)
(*                                                                         *)
(* Living proteins have a producer; the founders (the initial proteins)    *)
(* never die.  A gene produces a protein of its own, and only while a      *)
(* living protein of another producer is bound to it.  A protein that dies *)
(* is forgotten by every gene at that very moment, and its number is not   *)
(* given again before the network is restarted.                            *)
(***************************************************************************)
EXTENDS Integers, FiniteSets

CONSTANTS Gene, NumFounders

VARIABLES
    founders,   \* the producers of the founders, or Nobody
    producer,   \* the producer of each living protein
    fresh,      \* the next number
    regulator,  \* the protein bound to each gene, or Nobody
    product     \* the protein each gene produces, or Nobody

evars == <<founders, producer, fresh, regulator, product>>

Nobody == -1
Founder == 0 .. NumFounders - 1
Living == DOMAIN producer
Silent == [g \in Gene |-> Nobody]

Init ==
    /\ founders \in [Founder -> Gene \cup {Nobody}]
    /\ producer = founders /\ fresh = NumFounders
    /\ regulator = Silent /\ product = Silent

(* Gene g, regulated by b, produces a protein it already has ...           *)
Continue(g, b, p) ==
    /\ p \in Living /\ producer[p] = g
    /\ product' = [product EXCEPT ![g] = p]
    /\ UNCHANGED <<producer, fresh>>

(* ... or a new one.                                                       *)
Found(g, b) ==
    /\ producer' = [p \in Living \cup {fresh} |-> IF p = fresh THEN g ELSE producer[p]]
    /\ fresh' = fresh + 1
    /\ product' = [product EXCEPT ![g] = fresh]

Regulate(g) ==
    /\ \E b \in Living :
         /\ producer[b] # g
         /\ regulator' = [regulator EXCEPT ![g] = b]
         /\ Found(g, b) \/ \E p \in Living : Continue(g, b, p)
    /\ UNCHANGED founders

Silence(g) ==
    /\ regulator' = [regulator EXCEPT ![g] = Nobody]
    /\ product' = [product EXCEPT ![g] = Nobody]
    /\ UNCHANGED <<founders, producer, fresh>>

(* Some proteins of gene g die: it stops producing, and so does every gene *)
(* that one of them regulated.                                             *)
Die(g) ==
    \E dead \in SUBSET {p \in Living \ Founder : producer[p] = g} :
        /\ dead # {}
        /\ producer' = [p \in Living \ dead |-> producer[p]]
        /\ regulator' = [h \in Gene |-> IF regulator[h] \in dead THEN Nobody ELSE regulator[h]]
        /\ product' = [h \in Gene |-> IF h = g \/ regulator[h] \in dead
                                      THEN Nobody ELSE product[h]]
        /\ UNCHANGED <<founders, fresh>>

Restart ==
    /\ producer' = founders /\ fresh' = NumFounders
    /\ regulator' = Silent /\ product' = Silent
    /\ UNCHANGED founders

Next == Restart \/ \E g \in Gene : Regulate(g) \/ Silence(g) \/ Die(g)

Spec == Init /\ [][Next]_evars
=============================================================================
