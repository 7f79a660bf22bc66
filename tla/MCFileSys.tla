----------------------------- MODULE MCFileSys ------------------------------
(* Instances of FileSys for model checking.                                *)
EXTENDS FileSys, TLC

CONSTANTS p1, p2

A == <<TRUE, <<"a">>>>
B == <<TRUE, <<"b">>>>
AB == <<TRUE, <<"a", "b">>>>
Up == <<FALSE, <<"..">>>>
Here == <<FALSE, <<"b">>>>

(* One process makes and removes names, the other one uses them.           *)
Both == {<<"create", A>>, <<"unlink", A>>}
MakeAndUse ==
    p1 :> Both \cup {<<"mkdir", A>>, <<"mkdir", AB>>, <<"unlink", AB>>, <<"link", A, B>>,
                    <<"unlink", B>>}
 @@ p2 :> Both \cup {<<"chdir", A>>, <<"chdir", AB>>, <<"chdir", Up>>, <<"open", A>>, <<"open", Up>>,
                    <<"create", Here>>, <<"link", A, AB>>}
=============================================================================
