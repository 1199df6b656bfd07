----------------------------- MODULE MCThrottle -----------------------------
(* Three calls: two to the same chat, of different priority, and one to   *)
(* another chat; the global bucket lets two of them through at a time.     *)
EXTENDS Throttle

CONSTANTS j1, j2, j3, global, chatA, chatB

MCJobs == {j1, j2, j3}
MCBucket == {global, chatA, chatB}
MCBucketsOf == (j1 :> {global, chatA}) @@ (j2 :> {global, chatA}) @@ (j3 :> {global, chatB})
MCPriority == (j1 :> 0) @@ (j2 :> 1) @@ (j3 :> 0)
MCLimit == (global :> 2) @@ (chatA :> 1) @@ (chatB :> 1)
MCWindow == (global :> 2) @@ (chatA :> 2) @@ (chatB :> 1)
=============================================================================
