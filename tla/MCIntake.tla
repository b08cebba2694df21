------------------------------ MODULE MCIntake ------------------------------
(* Small instances of Intake: the two capture routes, that share a kind; two
   webhook sources of one owner; an archive import. *)
EXTENDS Intake

CONSTANTS k1, b1, b2, a1, a2

Door(route, kind, source, work) ==
  [route |-> route, kind |-> kind, source |-> source, work |-> work]
Capture == Door("captures", "content.capture.submit", "caller", "command")
BlobCapture == Door("captures/blobs", "content.capture.submit", "caller", "command")
Signal(source) == Door("webhooks", "content.capture.submit", source, "command")
Archive == Door("ai-archives", "ai_archive.import", "caller", "acceptance")

AllDoors == {Capture, BlobCapture, Signal("s1"), Signal("s2"), Archive}
BothCaptures == {Capture, BlobCapture}
OneBody == {b1}
OneKey == {k1}
TwoBodies == {b1, b2}
Two == {a1, a2}
ThreeIds == 1..3

(* One run plays several scenes: which doors are used, and with which payloads.
   Nothing is required of Begin, which alone the scenes bound. *)
Scene(doors, bodies) == [doors |-> doors, bodies |-> bodies]
Scenes ==
  {Scene({Capture}, TwoBodies), Scene({Signal("s1"), Signal("s2")}, {b1}),
   Scene({Signal("s1"), Archive}, {b1})}

Seen == {o.req : o \in operations}
          \union {attempt[a].req : a \in {b \in Attempts : ~ At(b, "idle")}}

InOneScene ==
  \E scene \in Scenes : \A r \in Seen : r.door \in scene.doors /\ r.body \in scene.bodies

MCNext == (Arrival /\ InOneScene') \/ Handling

MCSpec == Init /\ [][MCNext]_vars /\ Fairness
=============================================================================
