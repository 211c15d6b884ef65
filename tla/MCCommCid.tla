----------------------------- MODULE MCCommCid -----------------------------
(***************************************************************************)
(* TLC instances of CommCid: three processes, up to three creations.  The  *)
(* ids 0 to 3 are those of the communicators there are.                    *)
(***************************************************************************)
EXTENDS CommCid, TLC

CONSTANTS p1, p2, p3, r1, r2, r3

Groupes == (0 :> {p1, p2, p3}) @@ (1 :> {p1, p2}) @@ (2 :> {p2, p3}) @@ (3 :> {p1, p3})

(* Communicators of the creations, their members, threads, ids in use.      *)
M(comm, membres, fils, pris) ==
    [comm |-> comm, groupe |-> Groupes, membres |-> membres, fils |-> fils, pris |-> pris]

De(x, y, z) == (r1 :> x) @@ (r2 :> y) @@ (r3 :> z)
Par(x, y, z) == (p1 :> x) @@ (p2 :> y) @@ (p3 :> z)

(* Ids taken by others, not the same in each process.                       *)
Occupes(x, y, z) == Par({0, 1, 3} \cup x, {0, 1, 2} \cup y, {0, 2, 3} \cup z)
Inegaux == Occupes({4, 6}, {5}, {})
Tout == 0 .. MaxCid - 1

(* One thread each, all under communicator 0; some creations are for some   *)
(* of its processes only.  No id left anywhere, or in some processes, which *)
(* then make no other call on the communicator.                             *)
Memes(fil) == Par(<<fil>>, <<fil>>, <<fil>>)
ModesSuite ==
    {M(De(0, 0, 0), De({p1, p2, p3}, {p1, p2}, {p2, p3}), Memes(<<r1, r2, r3>>), o) :
       o \in {Occupes(x, y, z) : x \in {{}, {4, 6}}, y \in {{}, {5}}, z \in {{}, {4}}}}
    \cup {M(De(0, 0, 0), De({p1, p2, p3}, {p1, p2, p3}, {p1, p2, p3}), Memes(<<r1, r2, r3>>), Occupes(Tout, Tout, Tout))}
    \cup {M(De(0, 0, 0), De({p1, p2}, {p1, p2}, {p2, p3}), Memes(<<r1>>), Occupes(Tout, y, {5})) : y \in {{}, Tout}}

(* Under overlapping communicators, some in threads of their own: asked for *)
(* in the order of their ids, then not by p3.                               *)
ModesFils ==
    {M(De(1, 2, 3), De({p1, p2}, {p2, p3}, {p1, p3}), f, Inegaux) :
       f \in {Par(<<<<r1>>, <<r3>>>>, <<<<r1, r2>>>>, <<<<r2>>, <<r3>>>>),
              Par(<<<<r1>>, <<r3>>>>, <<<<r1>>, <<r2>>>>, <<<<r3, r2>>>>)}}

(* Together in p1, crossed in p2.                                           *)
ModesCroises ==
    {M(De(0, 1, 2), De({p1, p2}, {p1, p2}, {p2, p3}), Par(<<<<r1>>, <<r2>>>>, <<<<r2, r1, r3>>>>, <<<<r1, r3>>>>), Inegaux)}

ModesSuivis == ModesSuite \cup ModesFils \cup ModesCroises
=============================================================================
