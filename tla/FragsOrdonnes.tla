--------------------------- MODULE FragsOrdonnes ---------------------------
(***************************************************************************)
(* The list of the fragments of one peer that came before their turn       *)
(* (frags_cant_match, ompi/mca/pml/ob1/pml_ob1_recvfrag.c).  The C code    *)
(* keeps a ring of ranges, each a ring of fragments whose sequence numbers *)
(* follow one another, and a pointer to one of the ranges.  Here a list is *)
(* the sequence of its ranges in the order of the ring, from the one       *)
(* *queue points at; a range is the sequence of its fragments.             *)
(***************************************************************************)
EXTENDS Integers, Sequences, FiniteSetsExt

CONSTANTS
    Modulo     \* 2^16: hdr_seq and expected_sequence are uint16_t

ASSUME ModuloAssumption == Modulo \in Nat /\ Modulo > 1

Debut(liste, i) == liste[i][1].seq
Fin(plage) == plage[Len(plage)].seq
PlageSuivante(liste, i) == IF i = Len(liste) THEN 1 ELSE i + 1
Ecart(a, b) == IF a > b THEN a - b ELSE b - a
Tourner(liste, i) == SubSeq(liste, i, Len(liste)) \o SubSeq(liste, 1, i - 1)

Fragments(liste) == UNION {{liste[i][j] : j \in 1 .. Len(liste[i])} : i \in 1 .. Len(liste)}

(* The search, backwards from the head when the number is less than the     *)
(* head's (d1 and d2 are uint16_t), forwards otherwise.                      *)
Prior(liste, seq) ==
    LET d(i) == (Debut(liste, i) - seq) % Modulo
        Recule(i) == seq < Debut(liste, i) /\ d(PlageSuivante(liste, i)) > d(i) /\ i # 1
        Avance(i) == LET n == PlageSuivante(liste, i) IN
                     /\ seq > Debut(liste, i)
                     /\ seq > Debut(liste, n)
                     /\ Debut(liste, i) < Debut(liste, n)
    IN IF seq < Debut(liste, 1)
       THEN Max({i \in 1 .. Len(liste) : ~ Recule(i)})
       ELSE Min({i \in 1 .. Len(liste) : ~ Avance(i)})

(* merge_ranges, the first range of the list being the one that grew:       *)
(* hdr_seq + 1 is an int, so that 2^16 - 1 and 0 do not follow one another. *)
Fusionner(liste) ==
    IF Len(liste) > 1 /\ Fin(liste[1]) + 1 = Debut(liste, 2)
    THEN <<liste[1] \o liste[2]>> \o SubSeq(liste, 3, Len(liste))
    ELSE liste

(* append_frag_to_ordered_list; seq is the number expected next.            *)
Append_ordonne(liste, frag, seq) ==
    IF liste = <<>> THEN <<<<frag>>>>
    ELSE LET p == Prior(liste, frag.seq)
             suite == Fin(liste[p]) + 1 = frag.seq
             avant == SubSeq(liste, 1, p - 1)
             reste == SubSeq(liste, p + 1, Len(liste))
             plages == IF suite
                       THEN Tourner(avant \o <<Append(liste[p], frag)>> \o reste, p)
                       ELSE Tourner(avant \o <<liste[p], <<frag>>>> \o reste, p + 1)
             nouvelleTete == /\ ~ suite
                             /\ frag.seq >= seq
                             /\ Ecart(frag.seq, seq) < Ecart(Debut(liste, 1), seq)
             tete == IF nouvelleTete THEN frag ELSE liste[1][1]
             fusion == Fusionner(plages)
             places == {i \in 1 .. Len(fusion) : fusion[i][1] = tete}
         IN IF places = {} THEN fusion ELSE Tourner(fusion, Min(places))

(* remove_head_from_ordered_list, for a list that has a head.               *)
Sans_tete(liste) ==
    IF Len(liste[1]) = 1 THEN Tail(liste) ELSE [liste EXCEPT ![1] = Tail(@)]

(* check_cantmatch_for_match finds the fragment expected.                   *)
A_son_tour(liste, seq) == liste # <<>> /\ liste[1][1].seq = seq
=============================================================================
