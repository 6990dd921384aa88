------------------------------ MODULE MCGameLookup ------------------------------
EXTENDS GameLookup

Image(comm, name, mods) == [comm |-> comm, name |-> name, mods |-> mods]
AllImages == {Image("game", "game", {"lib"}), Image("ga", "game", {}),
              Image("helper", "helper", {"hollow"})}
Platforms == [a \in Apps |-> IF a = 1 THEN "ps5" ELSE "ps4"]
Text(t) == [text |-> t, fits |-> TRUE]
TooLong(t) == [text |-> t, fits |-> FALSE]
File(vs, t) == [versions |-> vs, title |-> t]
AllMeta == {File(<<Absent, Text("2")>>, "absent"), File(<<Text("1"), Text("2")>>, "Game"),
            File(<<TooLong("3"), Text("2")>>, "Game"), File(<<TooLong("3"), Absent>>, "absent"),
            File(<<TooLong("3"), Text("")>>, "Other")}
=============================================================================
