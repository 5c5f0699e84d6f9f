------------------------- MODULE MCCheckInAdmission -------------------------
(* Five check-ins of two headsets: two revisions of one epoch, the later    *)
(* one with a proof, a restart of the producer that raises the identity, an *)
(* id used by two, one signed with a replaced key; a request for wireless   *)
(* ADB and its end; kiosk operations on the first headset.                  *)
EXTENDS CheckInAdmission

CONSTANTS d1, d2, k1, k2, old, e1, e2, p, c1, c2, c3, c4, w1, off

Signed(id, key, issued, device, identity, epoch, revision, fresh) ==
    [checkin_id |-> id, key_id |-> key, issued_at |-> issued, expires_at |-> issued + 2,
     device_id |-> device, identity_revision |-> identity, profile |-> p,
     source_epoch |-> epoch, source_revision |-> revision,
     fresh_until |-> fresh]

MCEnvelopes ==
    {Signed(c1, k1, 0, d1, 1, e1, 1, 0), Signed(c2, k1, 1, d1, 1, e1, 2, 3),
     Signed(c3, k1, 1, d1, 2, e2, 1, 0),
     Signed(c1, k2, 0, d2, 1, e1, 1, 0), Signed(c4, old, 1, d2, 1, e1, 2, 0)}

For(action) ==
    [device_id |-> d1, identity_revision |-> 1, action |-> action, route |-> "modern"]
MCWifi == [o \in WifiOperations |-> For(IF o = off THEN "disable" ELSE "request")]

MCActiveKey == [d \in Devices |-> IF d = d1 THEN k1 ELSE k2]
MCKeyValidFrom == [k \in Keys |-> IF k = k2 THEN 1 ELSE 0]
MCKeyExpires == [k \in Keys |-> IF k = k2 THEN 2 ELSE 4]
=============================================================================
