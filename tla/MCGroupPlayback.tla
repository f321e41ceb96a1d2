-------------------------- MODULE MCGroupPlayback --------------------------
(***************************************************************************)
(* Instances of GroupPlayback for TLC.  The command types are divided      *)
(* between the runs so that each reaches the depth its question needs.     *)
(***************************************************************************)
EXTENDS GroupPlayback

CONSTANTS a, b, t, u

EditCommands == {"append", "insert", "playNext", "remove", "reorder", "shuffle", "clear",
                 "skip", "previous", "setRepeat", "setFairQueue", "voteSkip",
                 "markUnavailable", "setShuffle"}

TransportCommands == {"append", "play", "pause", "resume", "seek", "stop", "previous",
                      "jump", "advance", "setRepeat", "remove"}

LiveCommands == {"append", "pause", "resume", "seek", "advance"}

=============================================================================
