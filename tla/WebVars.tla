--------------------------------- MODULE WebVars --------------------------------
(***************************************************************************)
(* The variables of the sections of the web client.  A behaviour runs one  *)
(* section of the client; they share no state that their properties speak  *)
(* of.  A variable is the variable that the section gives that place in    *)
(* its INSTANCE, and is None if it has none there.                         *)
(***************************************************************************)
EXTENDS Integers, Sequences, FiniteSets

CONSTANT None

VARIABLES
  section,   \* the section that runs
  v1, v2, v3, v4, v5, v6, v7, v8, v9, v10, v11, v12, v13, v14, v15, v16, v17, v18, v19, v20, v21,
  v22

vars == <<section, v1, v2, v3, v4, v5, v6, v7, v8, v9, v10, v11, v12, v13, v14, v15, v16, v17, v18,
                   v19, v20, v21, v22>>

(* A section that has n variables does not have the others. *)
off22 == v22 = None
off21 == v21 = None /\ off22
off20 == v20 = None /\ off21
off19 == v19 = None /\ off20
off18 == v18 = None /\ off19
off17 == v17 = None /\ off18
off16 == v16 = None /\ off17
off15 == v15 = None /\ off16
off14 == v14 = None /\ off15
off13 == v13 = None /\ off14
off12 == v12 = None /\ off13
off11 == v11 = None /\ off12
same22 == <<v22>>
same21 == <<v21, same22>>
same20 == <<v20, same21>>
same19 == <<v19, same20>>
same18 == <<v18, same19>>
same17 == <<v17, same18>>
same16 == <<v16, same17>>
same15 == <<v15, same16>>
same14 == <<v14, same15>>
same13 == <<v13, same14>>
same12 == <<v12, same13>>
same11 == <<v11, same12>>

(* A property of one section. *)
In(s, p) == section = s => p
=============================================================================
