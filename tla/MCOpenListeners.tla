---------------------------- MODULE MCOpenListeners ----------------------------
(* Specifications for checking OpenListeners: every type in both notations,  *)
(* wrapped and not, with arguments good and bad.                             *)
EXTENDS OpenListeners, TLC

CONSTANTS o1, o2   \* the Openers

String(type, given) == [type |-> type, notation |-> "string", given |-> given]
JSON(type, given) == [type |-> type, notation |-> "json", given |-> given]

proxy == String("proxy", << >>)
web == <<String("tcp", "port" :> "80")>>
web4 == <<String("tcp", "address" :> "0.0.0.0" @@ "port" :> "443")>>
web6 == <<String("bare", "address" :> "::" @@ "port" :> "443")>>
sock == <<String("tls", "cert" :> "/cert"), proxy, String("unix", "path" :> "/run/sock")>>
fd3 == <<proxy, String("fd", "fd" :> "3")>>
named == <<String("fdname", "name" :> "api")>>
auto == <<String("tls", "autocert_hostnames" :> <<"a.example", "b.example">>),
          String("tcp", "address" :> "::" @@ "port" :> "443")>>
badTls == <<String("tls", "cert" :> "/cert")>>
badFd == <<String("fd", "fd" :> "bad")>>
unknown == <<String("unknown", << >>)>>

objects == <<JSON("tls", "cert_directory" :> "/certs/" @@ "default_server_name" :> "a.example"),
             JSON("proxy", << >>), JSON("tcp", "port" :> "8443")>>
untyped == <<JSON("tls", "cert" :> "/cert"), JSON("untyped", << >>)>>
lonely == <<JSON("tls", "cert" :> "/cert")>>
mapped == <<[type |-> "tls", notation |-> "map", given |-> "autocert_hostnames" :> <<"a.example">>],
            [type |-> "unix", notation |-> "map", given |-> "path" :> "/run/sock"]>>
withAddress == <<JSON("tcp", "address" :> "0.0.0.0" @@ "port" :> "443")>>
withHostnames == <<JSON("proxy", << >>), JSON("tls", "autocert_hostnames" :> <<"a.example">>),
                   JSON("tcp", "port" :> "443")>>

Job(list1, list2) == o1 :> list1 @@ o2 :> list2

MCJobs ==
  { Job(<<sock, fd3>>, <<objects>>),        Job(<<sock, badFd>>, <<untyped>>),
    Job(<<named, web>>, <<auto, badTls>>),  Job(<<web4, web6>>, <<fd3, unknown>>),
    Job(<<sock, fd3>>, <<named, badTls>>),  Job(<<mapped>>, <<withAddress>>),
    Job(<<sock, web4>>, <<lonely>>),        Job(<<web6, fd3, unknown>>, <<mapped>>),
    Job(<<auto, web4>>, <<withHostnames>>) }

JSONJobs == { Job(<<withAddress>>, <<web>>), Job(<<withHostnames>>, <<web>>) }

Env(dir, root, home, key) ==
  [AUTOCERT_CACHE_DIR |-> dir, root |-> root, XDG_DATA_HOME |-> "", HOME |-> home,
   AUTOCERT_EAB_KID |-> "kid", AUTOCERT_EAB_KEY |-> key]
MCEnvs == { Env("/cache", TRUE, "/root", "key"), Env("", FALSE, "/home", "bad"), Env("", FALSE, "", "") }

MCRegType == [r \in Registrars |-> "tls"]
MCPassed == <<"3", "4">>
MCFdNames == <<"web", "api">>
================================================================================
