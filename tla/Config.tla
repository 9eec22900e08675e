------------------------------- MODULE Config -------------------------------
(***************************************************************************)
(* The configuration of both processes (backend/common/config.hpp and      *)
(* gateway/common/config.hpp).  They load the same .env file, each with    *)
(* checks of its own: a section is read and checked when something asks    *)
(* for it, which for some sections is at start-up and for others is in the *)
(* middle of a request.                                                    *)
(*                                                                         *)
(* A value is the class of what stands after the '=': "twice" stands for   *)
(* any line the loader refuses, "pos" is the number 1, "addr" is 127.0.0.1,*)
(* under which processes of one machine see each other, "word" any other   *)
(* name or address.                                                        *)
(***************************************************************************)

Raw == {"twice", "absent", "empty", "word", "neg", "zero", "pos", "bool", "alg", "path",
        "addr", "localhost"}

----------------------------------------------------------------------------
(* The getters: which values each kind of read accepts.  An optional value *)
(* has a default; "nonzero" is backend's test of an unsigned timeout, which*)
(* a negative number passes.                                               *)

Accepts ==
    LET strings == Raw \ {"twice", "absent", "empty"}
        ints == {"neg", "zero", "pos"}
    IN  [string |-> strings, int |-> ints,
         positive |-> {"pos"}, natural |-> {"zero", "pos"}, nonzero |-> {"neg", "pos"},
         optional |-> {"absent", "pos"}, bool |-> {"bool", "zero", "pos"},
         algorithm |-> {"alg"}, path |-> {"path"}]

As(check, keys) == keys \X {check}

LoggerNeeds ==
    As("string", {"LOG_FILE"}) \cup As("int", {"LOG_MAX_FILE_SIZE", "LOG_MAX_FILES"})
    \cup As("bool", {"LOG_CONSOLE_ENABLED"})

HttpServerNeeds ==
    As("optional", {"HTTP_WORKER_THREADS", "HTTP_LISTEN_BACKLOG",
                    "HTTP_MAX_CONCURRENT_CONNECTIONS", "HTTP_READ_TIMEOUT_SECONDS"})

RedisNeeds(account, timeout) ==
    As("string", {"REDIS_HOST"} \cup account) \cup As("natural", {"REDIS_DB"})
    \cup As("positive", {"REDIS_PORT", "REDIS_POOL_SIZE"})
    \cup As(timeout, {"REDIS_CONNECT_TIMEOUT_SECONDS", "REDIS_COMMAND_TIMEOUT_SECONDS"})

\* What the sections of the backend's Config read.
BackendNeeds ==
    [logger |-> LoggerNeeds,
     mysql |->
        As("string", {"MYSQL_HOST", "MYSQL_USER", "MYSQL_PASSWORD", "MYSQL_DATABASE"})
        \cup As("int", {"MYSQL_PORT", "MYSQL_CONNECT_TIMEOUT_SECONDS",
                        "MYSQL_READ_TIMEOUT_SECONDS", "MYSQL_WRITE_TIMEOUT_SECONDS",
                        "MYSQL_POOL_SIZE"}),
     redis |-> RedisNeeds({"REDIS_BACKEND_USERNAME", "REDIS_BACKEND_PASSWORD"}, "nonzero"),
     paymentBackend |->
        As("string", {"PAYMENT_BACKEND_IP"})
        \cup As("positive", {"PAYMENT_BACKEND_HTTP_PORT", "PAYMENT_BACKEND_WEBSOCKET_PORT"}),
     httpServer |-> HttpServerNeeds,
     jwt |->
        As("algorithm", {"JWT_ALGORITHM"}) \cup As("string", {"JWT_SECRET"})
        \cup As("positive", {"JWT_QR_TOKEN_TTL_SECONDS"})
        \cup As("natural", {"JWT_CLOCK_SKEW_SECONDS"}),
     hash |-> As("string", {"USER_EMAIL_HASH_SECRET", "USER_ID_CARD_HASH_SECRET"}),
     passwordHash |-> As("string", {"PASSWORD_HASH_SECRET"}),
     paymentGateway |->
        As("string", {"PAYMENT_GATEWAY_IP"})
        \cup As("positive", {"PAYMENT_GATEWAY_WEBSOCKET_PORT", "PAYMENT_GATEWAY_HTTP_PORT"}),
     paymentNginx |->
        As("string", {"PAYMENT_NGINX_IP"}) \cup As("positive", {"PAYMENT_NGINX_PORT"})
        \cup As("path", {"PAYMENT_SCAN_PAGE_PATH"}),
     runtime |->
        As("optional", {"LOGIN_SESSION_TTL_SECONDS"})
        \cup As("positive", {"PAYMENT_SESSION_TTL_SECONDS",
                             "PAYMENT_ATTEMPT_REQUEST_TTL_SECONDS",
                             "WEBSOCKET_HEARTBEAT_INTERVAL_SECONDS",
                             "WEBSOCKET_IDLE_TIMEOUT_SECONDS", "LOGIN_REAUTH_MAX_RETRY"})]

\* What the sections of the gateway's Config read; unlike the backend's, its
\* paymentGateway section does not ask for PAYMENT_GATEWAY_IP.
GatewayNeeds ==
    [logger |-> LoggerNeeds,
     redis |-> RedisNeeds({"REDIS_GATEWAY_USERNAME", "REDIS_GATEWAY_PASSWORD"}, "positive"),
     paymentBackend |->
        As("string", {"PAYMENT_BACKEND_IP"}) \cup As("positive", {"PAYMENT_BACKEND_HTTP_PORT"}),
     paymentGateway |->
        As("positive", {"PAYMENT_GATEWAY_WEBSOCKET_PORT", "PAYMENT_GATEWAY_HTTP_PORT"}),
     paymentNginx |->
        As("string", {"PAYMENT_NGINX_IP"}) \cup As("positive", {"PAYMENT_NGINX_PORT"}),
     httpServer |-> HttpServerNeeds,
     wsMaxConnections |-> As("optional", {"WS_MAX_CONNECTIONS"})]

----------------------------------------------------------------------------

\* The sections main reads before it serves; the others are read by handlers.
BackendStart == {"logger", "mysql", "redis", "paymentBackend", "httpServer"}
GatewayStart == {"logger", "redis", "paymentGateway", "httpServer", "wsMaxConnections"}

KeysOf(needs) == UNION {{n[1] : n \in needs[s]} : s \in DOMAIN needs}
Keys == KeysOf(BackendNeeds) \cup KeysOf(GatewayNeeds)

\* loadFromEnvFile takes the file: no line without '=', no empty or repeated key.
Loads(env) == \A k \in Keys : env[k] # "twice"

\* The sections that throw when they are read.
Bad(needs, env) == {s \in DOMAIN needs : \E n \in needs[s] : env[n[1]] \notin Accepts[n[2]]}

\* main gets to the point where it serves.
Starts(needs, start, env) == Loads(env) /\ Bad(needs, env) \cap start = {}

\* mysql() does not test the size of the pool: with none, the backend starts with a
\* pool in which every acquire times out.
EmptyPool(env) == env["MYSQL_POOL_SIZE"] \in {"neg", "zero"}

\* What connectBackend and connectGatewayHttp reach: they take "localhost" for
\* 127.0.0.1, and inet_pton refuses every other name.
Connects(host) == host \in {"addr", "localhost"}

\* What the two processes make of the file once they run.
HostClass(ip) == IF Connects(ip) THEN ip ELSE "name"
Deployment(env) ==
    [backendIp |-> HostClass(env["PAYMENT_BACKEND_IP"]),
     nginxIp |-> HostClass(env["PAYMENT_NGINX_IP"]),
     gatewayIp |-> HostClass(env["PAYMENT_GATEWAY_IP"]),
     backendBad |-> Bad(BackendNeeds, env), gatewayBad |-> Bad(GatewayNeeds, env),
     emptyPool |-> EmptyPool(env)]

\* handleRequest's origin check.  The peer is Nginx, on this machine; the section with
\* its address is read only if the peer's address is not the configured one of the
\* backend.
Origin(d) ==
    CASE d.backendIp = "addr" -> "accepted"
      [] d.backendIp # "addr" /\ "paymentNginx" \in d.gatewayBad -> "throws"
      [] d.backendIp # "addr" /\ "paymentNginx" \notin d.gatewayBad ->
           IF d.nginxIp = "addr" THEN "accepted" ELSE "refused"

\* A notification from the backend, on this machine too, is told apart from other
\* requests by the configured address of the backend, which is not translated.
NotifyOutcome(d) ==
    CASE "paymentGateway" \in d.backendBad -> "throws"
      [] "paymentGateway" \notin d.backendBad /\ d.gatewayIp = "name" -> "unreachable"
      [] "paymentGateway" \notin d.backendBad /\ d.gatewayIp # "name" ->
           IF d.backendIp = "addr" THEN "pushed" ELSE "forbidden"

----------------------------------------------------------------------------
(* A file that is right for one machine, and files that differ from it in  *)
(* one key or in the addresses of backend and Nginx: .env.test (Nginx under*)
(* another address) and .env.example (backend "localhost") are among them. *)

GoodValue(k) ==
    LET needs == UNION {BackendNeeds[s] : s \in DOMAIN BackendNeeds}
                 \cup UNION {GatewayNeeds[s] : s \in DOMAIN GatewayNeeds}
        checks == {n[2] : n \in {m \in needs : m[1] = k}}
    IN  CASE k \in {"PAYMENT_BACKEND_IP", "PAYMENT_GATEWAY_IP", "PAYMENT_NGINX_IP"} -> "addr"
          [] checks = {"string"} -> "word"
          [] checks = {"bool"} -> "bool"
          [] checks = {"algorithm"} -> "alg"
          [] checks = {"path"} -> "path"
          [] OTHER -> "pos"

GoodEnv == [k \in Keys |-> GoodValue(k)]
Envs ==
    {[GoodEnv EXCEPT ![k] = v] : k \in Keys, v \in Raw}
    \cup {[GoodEnv EXCEPT !["PAYMENT_BACKEND_IP"] = v, !["PAYMENT_NGINX_IP"] = w] : v, w \in Raw}

\* The files with which both processes get to serve.
ServingEnvs ==
    {env \in Envs : /\ Starts(BackendNeeds, BackendStart, env)
                    /\ Starts(GatewayNeeds, GatewayStart, env)}
=============================================================================
