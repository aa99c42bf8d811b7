------------------------- MODULE MCServiceLifecycle --------------------------
(* Two poll adapters: one whose discovery may list a Datastream twice, and *)
(* the dummy adapter's fixed Thing; a probe of the admin server, two pushes.*)
EXTENDS ServiceLifecycle

TwoAdapters == <<{<<"s1", "s2">>, <<"s1", "s2", "s1">>, <<>>}, {<<"d1">>}>>

PingAndPush == [ping |-> "admin", batch |-> "push", other |-> "push"]
=============================================================================
