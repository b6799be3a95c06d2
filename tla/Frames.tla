-------------------------------- MODULE Frames ---------------------------------
(***************************************************************************)
(* The conversions of patrol_mission/frames.py, on integers: lengths, and  *)
(* headings in eighths of a turn.                                          *)
(***************************************************************************)
EXTENDS Integers

FrameNames == {"enu", "ned"}

Plus(p, q) == <<p[1] + q[1], p[2] + q[2], p[3] + q[3]>>
Minus(p, q) == <<p[1] - q[1], p[2] - q[2], p[3] - q[3]>>

\* The axis map between ENU and NED; it is its own inverse.
SwapAxes(p) == <<p[2], p[1], -p[3]>>

\* Mutant: a NED waypoint is mapped like an ENU one.
ToNedAlwaysSwapped(p, frame, origin) == Plus(SwapAxes(p), origin)

ToNedFromOrigin(p, frame, origin) ==
  Plus(IF frame = "ned" THEN p ELSE SwapAxes(p), origin)

ToEnuFromNed(p, origin) == SwapAxes(Minus(p, origin))

HalfTurn == 4
QuarterTurn == 2

\* Into (-pi, pi].
WrapToPi(a) == ((a + HalfTurn - 1) % (2 * HalfTurn)) - HalfTurn + 1

EnuYawToNed(yaw) == WrapToPi(QuarterTurn - yaw)
NedYawToEnu(yaw) == WrapToPi(QuarterTurn - yaw)
================================================================================
