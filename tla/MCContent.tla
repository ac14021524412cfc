----------------------------- MODULE MCContent -----------------------------
(***************************************************************************)
(* The library with two requests, one browser upload with its callbacks    *)
(* and requests, or an upload that is replaced, in one state space.        *)
(***************************************************************************)
EXTENDS AssetUploads, TLC
CONSTANTS k1, k2, k3, a1, a2, r1, r2, f1, Focus
VARIABLE focus

mcVars == <<focus, uploadVars>>
MCInit == focus \in Focus /\ UploadInit
MCNext ==
  /\ UNCHANGED focus
  /\ UploadNext
  /\ focus = "library" => item' = item /\ callback' = callback
  /\ focus = "uploads" =>
       /\ \A r \in Requests : request'[r].op \notin {"upload", "derive", "update", "replace"}
       /\ minted' \subseteq {k1, k2} /\ \A c \in callback' : c.asset = Nothing
       /\ linked' = {}
  /\ focus = "replacing" =>
       /\ item' = item /\ linked' = {}
       /\ \A r \in Requests : request'[r].op \notin {"derive", "update"}

MCSpec == MCInit /\ [][MCNext]_mcVars /\ BrowserFairness
=============================================================================
