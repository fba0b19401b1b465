---------------------------- MODULE MCDeepChanges ----------------------------
(* Layouts of tables and rows for DeepChanges. *)
EXTENDS DeepChanges

(* A table with links to itself and to another, which links back; and three tables
   in a circle. *)
Mixed ==
    {[columns |-> << <<1, 2>>, <<1>> >>, tableOf |-> <<1, 1, 1, 1, 2>>],
     [columns |-> << <<2, 3>>, <<3>>, <<1>> >>, tableOf |-> <<1, 1, 2, 2, 3>>]}

(* One table that links to itself. *)
Own == {[columns |-> << <<1>> >>, tableOf |-> <<1, 1, 1>>]}
=============================================================================
