----------------------------- MODULE ReleaseLog -----------------------------
(***************************************************************************)
(* What the scheduler may rely on when it reads jp.deploy: a log that only *)
(* grows, in which every release appears at most once, and in which a      *)
(* release is ready only when its image has been made.  How requests,      *)
(* builds, workers, crashes and retries bring that about is left to        *)
(* DeployPipeline, which implements this specification.                    *)
(***************************************************************************)
EXTENDS Sequences, Naturals

CONSTANTS Releases, Images, States

VARIABLES made,   \* the images that exist
          log     \* the releases announced, each with its state and image

Announced == {log[i].id : i \in 1 .. Len(log)}

Init == made = {} /\ log = <<>>

Make(i) == /\ made' = made \cup {i}
           /\ UNCHANGED log

Announce(r, s, i) ==
    /\ r \notin Announced
    /\ s = "ready" => i \in made
    /\ log' = Append(log, [id |-> r, status |-> s, image |-> i])
    /\ UNCHANGED made

Next == \/ \E i \in Images : Make(i)
        \/ \E r \in Releases, s \in States, i \in Images : Announce(r, s, i)

Spec == Init /\ [][Next]_<<made, log>>
=============================================================================
