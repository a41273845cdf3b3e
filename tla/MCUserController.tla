--------------------------- MODULE MCUserController ---------------------------
(* Small instances of UserController for TLC. *)
EXTENDS UserController, TLC

CONSTANTS u1, createdb, p1, p2, p3, p4

\* A generated password and one the user provides.
OwnOrGiven ==
    {[name |-> u1, auth |-> "managed", permissions |-> {createdb}],
     [name |-> u1, auth |-> "secretRef", permissions |-> {}]}

\* One of each way to authenticate.
AllAuths ==
    [name: {u1}, auth: {"managed", "secretRef", "external"},
     permissions: {{createdb}}]

OneSpec == [name: {u1}, auth: {"managed"}, permissions: {{}}]

Rotate == [NoAnnotations EXCEPT !.rotate = TRUE]

Pause == [NoAnnotations EXCEPT !.paused = TRUE]

RotateOrNot == {NoAnnotations, Rotate}

\* For the variant of SecretHasPassword in which the resource that creates the
\* user asks for a rotation already.
OnlyRotate == {Rotate}

RotateOrPause == {NoAnnotations, Rotate, Pause}

\* Generated passwords are interchangeable. Used by safety runs only.
Symmetry == Permutations(Passwords)

===============================================================================
