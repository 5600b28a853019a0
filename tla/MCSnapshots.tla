---------------------------- MODULE MCSnapshots ----------------------------
EXTENDS Snapshots, TLC
Two == {<<"Main", "eth">>, <<"Cold", "manual">>}
One == {<<"Main", "eth">>}
Manuals == {<<"Main", "manual">>, <<"Cold", "manual">>}
MCAsked ==
    ({"create", "rename", "plan"} :> {<<"Main", "eth">>, <<"main!", "sol">>, <<"Cold", "eth">>,
                                      <<"???", "manual">>})
    @@ ({"create", "delete", "fault"} :> Two)
    @@ ({"create", "one", "delete", "account", "crash"} :> One)
    @@ ({"create", "plan", "day", "job"} :> Manuals)
    @@ ({"create", "one", "day", "job", "crash", "fault"} :> Manuals)
    @@ ({"create", "day", "job", "fault"} :> Manuals)
    @@ ({"create", "one", "day", "job"} :> One)
    @@ ({"create", "one", "resync", "day", "delete", "fault"} :> One)
    @@ ({"create", "one", "rebuild", "day"} :> One)
    @@ ({"create", "one", "reclassify", "backfill", "resync", "day"} :> One)
    @@ ({"create", "backfill", "delete", "crash"} :> Manuals)
MCMixes == DOMAIN MCAsked
\* The instance of RebuildTouchesNoJobRow (README.md, "Disagreements").
RebuildMix == {{"create", "one", "rebuild", "day", "job"}}
RebuildAsked == [m \in RebuildMix |-> One]
MCSlug == [n \in Names |-> IF n = "???" THEN "" ELSE IF n = "Cold" THEN "cold" ELSE "main"]
MCCaps == [free |-> 1, pro |-> 2]
MCSymmetry == Permutations(Procs) \cup Permutations(JobSlots)
=============================================================================
