------------------------------ MODULE MCCamera ------------------------------
(***************************************************************************)
(* An instance of Camera: a depth and a color sensor.  Depth has a default *)
(* profile, values that only another format has, and at every start of a   *)
(* node the 0,0,0 that rs_launch.py gives; color has no default and is set *)
(* to formats, one of them unknown.  align_depth.enable and the infrared   *)
(* streams, which are off, are given at launch too.                        *)
(***************************************************************************)
EXTENDS Camera

SensorOfStream == [st \in Stream |-> IF st = "depth" THEN 1 ELSE 2]

Profile(st, values, format, default) ==
  [stream |-> st, values |-> values, format |-> format, default |-> default]

Profiles ==
  <<Profile("depth", "1280x720x30", "Y16", FALSE), Profile("depth", "848x480x30", "Z16", TRUE),
    Profile("color", "1280x720x30", "BGR8", FALSE), Profile("color", "1280x720x30", "RGB8", FALSE)>>

UserSettings ==
  ({<<"profile", "depth">>} \X {"848x480x30", "1280x720x30", "0,0,0"})
    \union ({<<"format", "color">>} \X {"BGR8", "RGB8", "JPEG"})

GivenAtLaunch == [p \in {<<"profile", "depth">>} |-> "0,0,0"]
=============================================================================
