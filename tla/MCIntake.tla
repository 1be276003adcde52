------------------------------- MODULE MCIntake -------------------------------
(* Intake on a few command lines, hand edits and env scripts. *)
EXTENDS Intake, TLC

MCAbsPaths == {"/a", "/b"}
MCVolumeNames == {"vol", "ro"}

MCRaws == { <<"/a", "/b">>, <<"vol", "/a">>, <<"vol", "/a", "ro">>, <<"ro", "/b", "ro">>,
            <<"/a">>, <<"vol", "/a", "rw">>, <<"/a", "/b", "ro", "">>,
            <<"", "/a">>, <<"-", "/a">>, <<"vol", "vol">>, <<"/a", "">> }

MCMounts == {<<>>} \union {<<r>> : r \in MCRaws} \union
            { <<r, <<"vol", "/a">>>> : r \in {<<"/a", "/b">>, <<"/b", "/a", "ro">>, <<"-", "/a">>} }

MCCommandLines ==
  {c \in [mounts : MCMounts, strategy : {"recreate", "rolling"}, port : {0, 80}, env : {"auto", "explicit"}] :
     c.port = 0 \/ c.strategy = "recreate"}

MCEdits == { <<>>,
             <<AMount(<<"vol">>, <<"/b">>, TRUE)>>,
             <<AMount(<<"vol">>, <<"vol">>, FALSE)>>,
             <<AMount(<<"vol">>, <<"/a">>, FALSE), AMount(<<"/b">>, <<"/a">>, FALSE)>>,
             <<AMount(<<"/a">>, <<"/b", "ro">>, FALSE)>>,
             <<AMount(<<"/a", "b">>, <<"/b">>, FALSE)>> }

MCScripts == { <<>>,
               << <<"set", "APP", 1>>, <<"export", "LANG", 2>> >>,
               << <<"export", "APP", 1>>, <<"set +a">>, <<"set", "APP", 2>>, <<"set", "KEY", 1>> >>,
               << <<"set -e">>, <<"set", "KEY", 1>>, <<"set +a">>, <<"export", "APP", 2>> >>,
               << <<"print">>, <<"set", "APP", 1>> >>,
               << <<"print">>, <<"set", "KEY", 1>> >>,
               << <<"set", "APP", 1>>, <<"readonly", "APP">>, <<"set", "APP", 2>>, <<"set", "KEY", 1>> >>,
               << <<"set -e">>, <<"readonly", "APP">>, <<"export", "APP", 2>> >>,
               << <<"set", "APP", 1>>, <<"syntax">>, <<"set", "KEY", 1>> >>,
               << <<"set -e">>, <<"fail">>, <<"set", "KEY", 1>> >>,
               << <<"fail">>, <<"set", "KEY", 1>> >>,
               << <<"set", "APP", 1>>, <<"exit", 0>> >>,
               << <<"set", "APP", 1>>, <<"exit", 3>> >> }
=============================================================================
