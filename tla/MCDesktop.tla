----------------------------- MODULE MCDesktop -----------------------------
(***************************************************************************)
(* Instances of Desktop: what the user types.  All orders of three keys,   *)
(* with the switch to a process (f4), to the kernel (f1), a scroll and a   *)
(* letter, and some longer inputs that scroll back, hold a key down, fill  *)
(* the key queue, and type to the idle process.                            *)
(***************************************************************************)
EXTENDS Desktop

MCInputs == [1 .. 3 -> {"f1", "f4", "end", "a"}]
              \cup {<<"f4", "a", "end", "a", "home">>, <<"a", "a", "a", "a", "a">>,
                    <<"f2", "a", "f5", "f3", "a">>, <<"f4", "f4", "end", "f3", "f4">>}
=============================================================================
