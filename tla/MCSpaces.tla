------------------------------ MODULE MCSpaces ------------------------------
(* Instances of Spaces for TLC.                                             *)
EXTENDS Spaces, TLC

CONSTANTS ann, bob, club, plaza

Row(visibility, owner) == [visibility |-> visibility, owner |-> owner]
Town(people, clubRow, bobsRole, plazaRow) ==
  [account |-> people,
   space |-> [s \in Spaces |-> IF s = club THEN clubRow ELSE plazaRow],
   role |-> [s \in Spaces |-> [u \in Users |->
              CASE s = club /\ u = ann -> "admin"
                [] s = club /\ u = bob -> bobsRole
                [] OTHER -> NULL]]]

(* A team space that ann owns and bob administers, beside the public one;  *)
(* a space that ann made public after the bearer deleted the public one;   *)
(* and no public space, and only ann registered.                           *)
Towns == {Town({ann, bob}, Row("team", ann), "admin", Row("public", NULL)),
          Town({ann, bob}, Row("public", ann), NULL, Row("unborn", NULL)),
          Town({ann}, Row("private", ann), NULL, Row("unborn", NULL))}
=============================================================================
