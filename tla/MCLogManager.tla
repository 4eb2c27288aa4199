---------------------------- MODULE MCLogManager ----------------------------
EXTENDS LogManager

CONSTANTS caller, wt

MCThread    == {caller}
MCMaxPush   == caller :> 2
MCPushLevel == {1}
MCNameOrder == <<"", "Main", "a", "b">>

(* Two loggers beside the main one, which is one more than there is place  *)
(* for; a section without a name; limits of zero and one that wraps; a     *)
(* level that keeps the first line of the logger's thread out.             *)
MCConfigFiles ==
    {<<Section(""), Section("a"), Attribute("level", "warn"),
       Attribute("limitsize", "0"), Section("b"), Attribute("level", "fatal"), Section("main"),
       Attribute("limitsize", "4")>>}

MCFileLine == {Section("a"), Section("main"), Section("Main"), Nothing,
               Attribute("level", "warn"), Attribute("level", "loud"),
               Attribute("level", "alarm"), Attribute("level", "warning"),
               Attribute("limitsize", "4"), Attribute("limit", "1"),
               Attribute("display", "0")} \cup UNION {ToSet(lines) : lines \in MCConfigFiles}
MCChar == {1, 2}
=============================================================================
