------------------------------- MODULE MCUploads ------------------------------
(***************************************************************************)
(* Small instances of Uploads.                                             *)
(***************************************************************************)
EXTENDS Uploads, TLC

RaceSymmetry == Permutations(Calls) \cup Permutations(Cleaners) \cup Permutations(Devices)

\* A declared file, and what the browser may store instead of it: the same
\* type with another size.
Good == [size |-> 1, type |-> <<"image", "png">>]
Large == [size |-> 2, type |-> <<"image", "png">>]
Two == {Good, Large}
TwoOrBroken == {Good, Large, Unreadable}
Images == {<<"image", "*">>}

\* Two parts that are explored apart: several initiates compete for the limit, or
\* at most two uploads, whose expiry was computed in either order of insertion,
\* become due.
Competing == signed = {} /\ \A u \in Ids : age[u] # "graced"
Due == clock <= 2 /\ Cardinality({c \in Calls : call[c].pc # "idle"}) <= 1

\* Ids are interchangeable: a call takes the lowest one that is unused.
LowestId == \A c \in Calls : call[c].pc = "idle" /\ call'[c].pc # "idle" =>
              \A u \in Unused : call'[c].id <= u

\* What admits an upload, makes it due and reconciles it: initiates, the browser,
\* time and the cleaners.
LiveSpec == /\ Init
            /\ [][/\ \/ \E c \in Calls : Initiate(c) \/ Abort(c)
                     \/ \E w \in Cleaners : RunOnce(w) \/ CleanerCrash(w)
                     \/ \E u \in Ids, o \in Storable : BrowserUpload(u, o)
                     \/ \E u \in Ids : Tick(u)
                  /\ LowestId /\ (Competing \/ Due)']_vars
            /\ CleanerFairness
=============================================================================
