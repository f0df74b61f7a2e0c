----------------------------- MODULE MCDetection -----------------------------
(***************************************************************************)
(* A small instance of Detection: windows of up to four events, which can  *)
(* make every contribution together, two halves of a large transfer, a     *)
(* negative count of bytes and an event that shows nothing.                *)
(***************************************************************************)
EXTENDS Detection

Event(destination, bytes, signs) ==
    [destination |-> destination, bytes |-> bytes, signs |-> signs]

SomeEvents ==
    {Event("good", 0, {"sensitive_access", "outside_work_hours"}),
     Event("none", 0, {"archive_activity", "sensitive_json_fields"}),
     Event("evil", 5, {"upload_activity"}),
     Event("proxy", 5, {"upload_activity", "blocked_activity"}),
     Event("good", 5, {"upload_activity", "egress_activity", "blocked_activity"}),
     Event("evil", -7, {"egress_activity"}),
     Event("good", 0, {})}

SomeAnswers ==
    [failed : BOOLEAN, action : {"execute_shell"}, target : {"unrelated"}]

=============================================================================
