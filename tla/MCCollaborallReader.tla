------------------------- MODULE MCCollaborallReader -------------------------
(* A busy stream and one with a single reading, sharing the cursor file.    *)
EXTENDS CollaborallReader

BusyAndQuiet ==
    {<<"busy", 1, "good">>, <<"busy", 2, "good">>, <<"busy", 2, "big">>,
     <<"busy", 3, "good">>, <<"busy", 3, "blank">>, <<"quiet", 2, "good">>}
=============================================================================
