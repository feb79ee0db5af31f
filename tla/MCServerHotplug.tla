-------------------------- MODULE MCServerHotplug --------------------------
(* ServerHotplug for TLC.  Nobody copies on the host while its monitors are *)
(* watched: the clipboard's watcher never takes Router.mu, which is all     *)
(* that a snapshot waits for.                                               *)
EXTENDS ServerHotplug

Copies == at[Watcher] = At("idle") /\ at'[Watcher] = At("sends")
ApartNext == HotplugNext /\ (Copies => subscriber = "done")
ApartSpec == HotplugInit /\ [][ApartNext]_hvars /\ HotplugFairness
=============================================================================
