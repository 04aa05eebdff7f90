------------------------------- MODULE MCOpSink -------------------------------
(* A third-party plugin and one with an official name, which share a        *)
(* contract file, against the operations that the exemptions and the order  *)
(* of the tests tell apart.                                                 *)
EXTENDS OpSink

CONSTANTS ext, off, none

MCPlugins   == {ext, off}
MCOfficial  == {off}
MCFiles     == {"own", "shared"}
MCFilesOf   == [p \in MCPlugins |-> IF p = ext THEN <<"own", "shared">> ELSE <<"shared">>]

State(p)    == <<"home", ".dsh">> \o p
MCLures     == {<<"home", "lure">>}
MCCore      == {State(<<"core">>)}
Key         == <<"home", "secret">>
MCCredentials == {Key}

MCDrafts ==
    {Absent, Garbage,
     Contract({}, {Under(<<"home">>)}, {Under(<<"home">>)}, {}, {443}, {"sh"}),
     Contract({Under(<<"home">>)}, {Plain(<<"*", ".bashrc">>)}, {}, {"paste"}, {}, {}),
     Contract({Lax}, {}, {}, {}, {}, {})}

MCManifests == {<<{}>>, <<{"path", "net"}>>, <<{"import"}>>}

Staged   == State(<<"web", "staging">>)
Settings == State(<<"plain">>)
Vendored == State(<<"node_modules", "plain">>)
Journal  == State(<<"sessions", "journal">>)

MCOperations ==
    { \* the host's own shapes, by anybody
      Fs("write", <<Staged>>), Fs("rename", <<Staged, Settings>>), Fs("unlink", <<Staged>>),
      Fs("unlink", <<Journal>>), Fs("stat", <<Journal>>), Fs("stat", <<State(<<"lock">>)>>),
      Fs("stat", <<State(<<"sessions", "draft">>)>>), Fs("unlink", <<State(<<"lock">>)>>),
      Fs("unlink", <<State(<<"profiles", "web", "draft">>)>>),
      \* precious and other files
      Fs("unlink", <<Settings>>), Fs("write", <<Key>>), Fs("openWrite", <<Settings>>),
      Fs("openRead", <<Key>>), Fs("read", <<Key>>), Fs("rename", <<Settings, <<"tmp", "plain">>>>),
      Fs("unlink", <<Vendored>>), Fs("write", <<Vendored>>), Fs("write", <<State(<<"core">>)>>),
      Fs("unlink", <<<<"home", "lure", "plain">>>>), Fs("write", <<<<"home", ".bashrc">>>>),
      Fs("write", <<<<"etc", "cron.d", "plain">>>>), Fs("write", <<<<"etc", "plain">>>>),
      Fs("read", <<<<"tmp", ".env">>>>), Fs("write", <<<<"tmp", "secret">>>>),
      \* commands and requests
      Proc({"sh"}, {}, <<>>), Proc({"rm"}, {}, <<Settings>>),
      Proc({"ls"}, {"rm"}, <<<<"home", "plain">>>>),
      [Proc({"rm"}, {}, <<>>) EXCEPT !.names = {"secret"}],
      [Proc({"ls"}, {}, <<>>) EXCEPT !.redirect = Settings, !.lure = TRUE],
      [Net("url", "", "web", 443) EXCEPT !.lure = TRUE, !.key = TRUE],
      Net("options", "web", "localhost", 4444), Net("options", "", "paste", 443),
      [Net("options", "paste", "registry", 443) EXCEPT !.portText = TRUE],
      Net("port", "paste", "", 443), Net("options", "", "", 0), Net("none", "", "", 0) }
===============================================================================
