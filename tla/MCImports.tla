---- MODULE MCImports ----
EXTENDS ImportRuns
ImportQueues == {<<"trakt", "simkl">>, <<"simkl", "trakt">>}
====
