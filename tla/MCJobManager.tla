---------------------------- MODULE MCJobManager ----------------------------
(***************************************************************************)
(* Instances of JobManager for TLC.  A scenario names the jobs, what they  *)
(* are, and what the code in them, in Main and in the client calls; a cfg  *)
(* takes one scenario and bounds the rest.                                 *)
(***************************************************************************)
EXTENDS JobManagerInv, TLC

CONSTANTS a, b, c, d, e, main, client, f1, f2

Kick(j) == <<"kick", j>>
Detach(id) == <<"detach", id>>

\* The script of each caller: the one overrides gives it, or no call at all.
Scripts(overrides) ==
    [x \in {main, client, a, b, c, d, e} |->
        IF x \in DOMAIN overrides THEN overrides[x] ELSE <<>>]
NoJobs == {}

OwnId == [j \in {a, b, c, d, e} |->
             CASE j = a -> "A" [] j = b -> "B" [] j = c -> "C"
               [] j = d -> "D" [] j = e -> "E"]
AllIds == {"A", "B", "C", "D", "E"}
MainPhase == [j \in {a, b, c, d, e} |-> "MAIN"]
OnlyA == {a}
OnlyB == {b}

\* Jobs that kick jobs.  Main kicks a (INIT) and c (an asynchronous CLEAN_UP
\* timer job); a kicks b for the next phase, b kicks d for its own.
CascadeJobs == {a, b, c, d}
CascadePhase ==
    [j \in CascadeJobs |-> IF j = a THEN "INIT"
                           ELSE IF j = c THEN "CLEAN_UP" ELSE "MAIN"]
CascadeScript == Scripts(main :> <<Kick(a), Kick(c)>>
                         @@ a :> <<Kick(b)>> @@ b :> <<Kick(d)>>)
CascadeAsync == {c}
CascadeTimer == {c}

\* A client kicks b while Main, which kicks a, invokes cycles.
OutsideJobs == {a, b}
OutsideScript == Scripts(main :> <<Kick(a)>> @@ client :> <<Kick(b)>>)

\* Main kicks a, an asynchronous job; a kicks b, an ordinary one.
AsyncScript == Scripts(main :> <<Kick(a)>> @@ a :> <<Kick(b)>>)

\* Core::EnableRenderingJob: a and b are two instances of "render-job"; c is
\* the job that detaches the id and kicks b.  In the second script c then
\* detaches itself, and Main detaches the render job between two cycles.
RenderJobs == {a, b, c}
RenderId == [j \in RenderJobs |-> IF j = c THEN "C" ELSE "A"]
RenderPhase == [j \in RenderJobs |-> IF j = c THEN "INIT" ELSE "MAIN"]
RenderScript == Scripts(main :> <<Kick(a), Kick(c)>>
                        @@ c :> <<Detach("A"), Kick(b)>>)
ReplaceScript == Scripts(main :> <<Kick(a), Kick(c), Detach("A")>>
                         @@ c :> <<Detach("A"), Kick(b), Detach("C")>>)
RenderTimer == {a, b}

\* Who detaches job a: itself and Main between two cycles, or another job of
\* the same phase (detach_jobs_mid_execution).
DetachJobs == {a, b}
DetachBySelf == Scripts(main :> <<Kick(a), Kick(b), Detach("B"), Detach("A")>>
                        @@ a :> <<Detach("A")>>)
DetachByJob == Scripts(main :> <<Kick(a), Kick(b)>> @@ b :> <<Detach("A")>>)

=============================================================================
