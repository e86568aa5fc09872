------------------------ MODULE MCCrossCameraMatcher ------------------------
(* TLC instances of CrossCameraMatcher: two cameras that share a zone and   *)
(* one of another zone; a look between two that are not alike, and the null *)
(* vector.                                                                  *)
EXTENDS CrossCameraMatcherProperties, TLC

CONSTANTS k1, k2, k3, look_x, look_y, look_z, null, hall, yard

Zones == (k1 :> hall) @@ (k2 :> hall) @@ (k3 :> yard)

Alikeness ==
    [u \in Looks |-> [v \in Looks |->
        CASE u = null \/ v = null -> 0
          [] u = v -> 100
          [] {u, v} = {look_x, look_y} -> 80
          [] {u, v} = {look_y, look_z} -> 75
          [] OTHER -> 40]]

HallCameras == Permutations({k1, k2})
=============================================================================
