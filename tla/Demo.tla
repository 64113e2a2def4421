--------------------------------- MODULE Demo ---------------------------------
(***************************************************************************)
(* The supply-chain demo: a starter that runs PostgreSQL in a container,   *)
(* seeds it and writes its address into .env; a user who edits that file;  *)
(* and the client, which takes its settings from the file and starts a     *)
(* postgresql-mcp of its own, or finds one over HTTP, and runs an agent.   *)
(*                                                                         *)
(* The starter may run several times, each time with a new container, and  *)
(* may be killed anywhere.  A setting is told by who wrote it: a container *)
(* (the starter that ran it), "default" (a default of the starter), "user",*)
(* "blank" (an empty value), or from outside the file "shell" or "parent"  *)
(* (the .env of a directory above).                                        *)
(***************************************************************************)
EXTENDS Readiness, Config, Sequences

CONSTANTS
  Containers,   \* one per run of the starter
  Batches,      \* the batches of the seed script
  FirstFiles,   \* what .env may hold at first; no lines when there is none
  UserLines,    \* the lines the user may add
  Shells,       \* the keys that may be set in the shell of the client
  Parent,       \* the keys set in .env of a directory above
  MaxEdits,     \* bound on the edits
  Environments  \* the other settings that a server may find

NoKey == "none"   \* of a comment and of any other line without one of these keys
Names == {"TARGET", "LEVEL", "TRANSPORT", "URL", "API_KEY", NoKey}
Writers == Containers \cup {"default", "starter", "user", "blank"}

\* KEY=value, export KEY=value, KEY: value, or a line that sets nothing and is
\* no comment.
Forms == {"plain", "export", "yaml", "broken"}
Lines == [key : Names, form : Forms, by : Writers]

\* A container is none of the other origins of a setting.
ASSUME ContainersAssumption ==
  /\ Containers # {}
  /\ Containers \cap {"default", "starter", "user", "blank", "none", "shell", "parent",
                     "fallback"} = {}
ASSUME BatchesAssumption == Batches \in Nat

\* Before the first run the file is the user's.
ASSUME FilesAssumption ==
  \A lines \in FirstFiles :
    /\ lines \in Seq(Lines)
    /\ \A n \in 1 .. Len(lines) : lines[n].by \notin Containers
ASSUME UserAssumption ==
  \A line \in UserLines : line \in Lines /\ line.by = "user" /\ line.form # "broken"
ASSUME EnvironmentsAssumption ==
  Environments \subseteq [level : Texts, transport : Texts, port : Texts, connect : Texts,
                         query : Texts, rows : Texts, confirm : Texts,
                         target : BOOLEAN, sslMode : BOOLEAN, address : BOOLEAN]

VARIABLES
  file,       \* the lines of .env
  edits,
  container,  \* what became of each: "none", "up", "gone"
  batches,    \* how much of the seed script each has executed
  starter, current, \* where the starter is, and the container of this run
  draft,      \* the lines it has read
  client,     \* where the client is
  env,        \* the client's settings, by who wrote them
  loaded,     \* the timeouts that the server it started was given
  final       \* the agent's last message that was not empty

starterVars == <<starter, current, draft, container, batches>>
clientVars == <<client, env, loaded, final>>
fileVars == <<file, edits>>
demoVars == <<waitVars, starterVars, clientVars, fileVars>>

-----------------------------------------------------------------------------
\* Lines of .env, each of which holds a whole value.  "TARGET" stands for host,
\* port, database, user, password and SSL mode, which are written together,
\* "URL" for the four defaults that say where a server is, and NoKey for
\* comments and blank lines, which have the key "" in the code.

replacements == {"TARGET", "LEVEL"}
defaults == {"TRANSPORT", "URL"}
Keys == {"TARGET", "LEVEL", "TRANSPORT", "API_KEY"}   \* that the client looks at

Line(key, by) == [key |-> key, form |-> "plain", by |-> by]
Comment == Line(NoKey, "starter")

\* The starter knows the key of a plain line alone.
envLineKey(line) == IF line.form = "plain" THEN line.key ELSE NoKey

\* godotenv reads the first three forms, the last line of a key wins, and with
\* a broken line it reads nothing of the file.
Readable(lines) == \A n \in 1 .. Len(lines) : lines[n].form # "broken"
Value(lines, key) ==
  LET at == {n \in 1 .. Len(lines) : lines[n].key = key}
  IN IF at = {} \/ ~Readable(lines) THEN "none"
     ELSE lines[CHOOSE n \in at : \A m \in at : m <= n].by

\* writeDemoEnv: known lines are replaced in place; what is missing follows
\* under a comment, in the order of the code.
Seen(lines) == {envLineKey(lines[n]) : n \in 1 .. Len(lines)}

Replaced(lines, c) ==
  [n \in 1 .. Len(lines) |->
     IF envLineKey(lines[n]) \in replacements THEN Line(envLineKey(lines[n]), c) ELSE lines[n]]

Headed(lines) == Append(IF lines = <<>> THEN lines ELSE Append(lines, Comment), Comment)

Added_SeenForgotten(lines, key, c) ==
  IF key \in Seen(lines) \cap replacements THEN lines
  ELSE Append(lines, Line(key, IF key \in replacements THEN c ELSE "default"))
Added(lines, key, c) ==
  IF key \in Seen(lines) THEN lines
  ELSE Append(lines, Line(key, IF key \in replacements THEN c ELSE "default"))

Rewritten_DropsOthers(lines, c) ==
  <<Line("TARGET", c), Line("LEVEL", c), Line("TRANSPORT", "default"), Line("URL", "default")>>
Rewritten(lines, c) ==
  IF replacements \cup defaults \subseteq Seen(lines)
  THEN Replaced(lines, c)
  ELSE LET target == Added(Headed(Replaced(lines, c)), "TARGET", c)
           level == Added(target, "LEVEL", c)
           transport == Added(level, "TRANSPORT", c)
       IN Added(transport, "URL", c)

-----------------------------------------------------------------------------
NoServer == [started |-> FALSE]
NoEnv == [key \in Keys |-> "none"]

DemoInit ==
  /\ Waiting
  /\ file \in FirstFiles /\ edits = 0
  /\ container = [c \in Containers |-> "none"]
  /\ batches = [c \in Containers |-> 0]
  /\ starter = "off" /\ current = (CHOOSE c \in Containers : TRUE) /\ draft = <<>>
  /\ client = "off" /\ env = NoEnv /\ loaded = NoServer /\ final = "none"

\* The user adds a line for a key that the file does not have, or changes one.
Edit ==
  /\ edits < MaxEdits /\ edits' = edits + 1
  /\ \/ \E line \in UserLines :
          /\ \A n \in 1 .. Len(file) : file[n].key # line.key
          /\ file' = Append(file, line)
     \/ \E n \in 1 .. Len(file) :
          /\ file[n].key \in {"TRANSPORT", "API_KEY"} /\ file[n].by # "user"
          /\ file' = [file EXCEPT ![n].by = "user"]
  /\ UNCHANGED <<waitVars, starterVars, clientVars>>

-----------------------------------------------------------------------------
\* The starter.

Go(next) == starter' = next /\ UNCHANGED <<current, draft>>
Leave(next) == starter' = next /\ draft' = <<>> /\ UNCHANGED current
Ongoing == starter \notin {"off", "exited"}

\* postgres.Run: it may fail before or after the container exists, and then
\* nothing is deferred yet.
Run ==
  /\ starter \in {"off", "exited"}
  /\ \E c \in Containers :
       /\ container[c] = "none"
       /\ current' = c /\ draft' = <<>>
       /\ \/ starter' = "connect" /\ container' = [container EXCEPT ![c] = "up"]
          \/ starter' = "exited" /\ container' \in {[container EXCEPT ![c] = "up"],
                                                    [container EXCEPT ![c] = "gone"]}
  /\ UNCHANGED <<waitVars, batches, clientVars, fileVars>>

\* Any step of run fails, run's context among the reasons: the deferred calls
\* follow.
Fails ==
  /\ starter \in {"connect", "seed", "verify", "read", "truncate", "write"}
  /\ Leave("terminate")
  /\ UNCHANGED <<waitVars, container, batches, clientVars, fileVars>>

\* Host, MappedPort and sql.Open; the clock of waitForDatabase starts.
Connect == /\ starter = "connect"
           /\ Go("wait")
           /\ UNCHANGED <<waitVars, container, batches, clientVars, fileVars>>

WaitForDatabase == /\ starter = "wait"
                   /\ WaitStep
                   /\ UNCHANGED <<starterVars, clientVars, fileVars>>

\* Back to the clock of the next run.
WaitOver ==
  /\ starter = "wait" /\ wait \in {"ready", "gaveUp", "cancelled"}
  /\ Go(IF wait = "ready" THEN "seed" ELSE "terminate")
  /\ wait' = "ping" /\ now' = 0 /\ from' = 0 /\ upAt' = -1
  /\ UNCHANGED <<container, batches, clientVars, fileVars>>

\* execBatches, one batch after the other.
Seed_ErrorIgnored ==
  /\ starter = "seed"
  /\ \/ /\ batches[current] < Batches
        /\ batches' = [batches EXCEPT ![current] = @ + 1] /\ Go(starter)
     \/ Go("verify") /\ UNCHANGED batches
  /\ UNCHANGED <<waitVars, container, clientVars, fileVars>>
Seed ==
  /\ starter = "seed"
  /\ IF batches[current] < Batches
     THEN batches' = [batches EXCEPT ![current] = @ + 1] /\ Go(starter)
     ELSE Go("verify") /\ UNCHANGED batches
  /\ UNCHANGED <<waitVars, container, clientVars, fileVars>>

\* verifySeeded counts the tables that the script has made.
Verify == /\ starter = "verify" /\ batches[current] > 0
          /\ Go("read")
          /\ UNCHANGED <<waitVars, container, batches, clientVars, fileVars>>

ReadEnv == /\ starter = "read"
           /\ starter' = "truncate" /\ draft' = file
           /\ UNCHANGED <<waitVars, current, container, batches, clientVars, fileVars>>

\* os.WriteFile empties the file and then writes it.
Truncate == /\ starter = "truncate"
            /\ file' = <<>>
            /\ Go("write")
            /\ UNCHANGED <<waitVars, container, batches, clientVars, edits>>

WriteEnv == /\ starter = "write"
            /\ file' = Rewritten(draft, current)
            /\ Go("enter")
            /\ UNCHANGED <<waitVars, container, batches, clientVars, edits>>

\* The user presses Enter.
Enter == /\ starter = "enter"
         /\ Leave("terminate")
         /\ UNCHANGED <<waitVars, container, batches, clientVars, fileVars>>

\* The deferred TerminateContainer; a failure is only logged.
Terminate ==
  /\ starter = "terminate"
  /\ Go("exited")
  /\ container' \in {container, [container EXCEPT ![current] = "gone"]}
  /\ UNCHANGED <<waitVars, batches, clientVars, fileVars>>

\* The process is stopped by a signal, which it does not handle.
Kill == /\ Ongoing
        /\ Leave("exited")
        /\ wait' = "ping" /\ now' = 0 /\ from' = 0 /\ upAt' = -1
        /\ UNCHANGED <<container, batches, clientVars, fileVars>>

\* Testcontainers has its own process that removes what a starter left.
Reap(c) == /\ container[c] = "up" /\ (c # current \/ ~Ongoing)
           /\ container' = [container EXCEPT ![c] = "gone"]
           /\ UNCHANGED <<waitVars, starter, current, draft, batches, clientVars, fileVars>>

Starter == \/ Run \/ Fails \/ Connect \/ WaitForDatabase \/ WaitOver \/ Seed \/ Verify
           \/ ReadEnv \/ Truncate \/ WriteEnv \/ Enter \/ Terminate

-----------------------------------------------------------------------------
\* The client.

Missing == {"none", "blank"}

\* Only a line of the user's, the shell or another file asks for HTTP.
Http == env["TRANSPORT"] \in {"user", "shell", "parent"}

Quit(how) == /\ client' = how
             /\ env' = NoEnv /\ loaded' = NoServer /\ final' = "none"

\* loadEnv: three files in turn, none overrides what is set already, and an
\* empty value is set.  An error in a file is ignored, and so is all of the file.
LoadEnv ==
  /\ client = "off"
  /\ client' = "loaded"
  /\ \E shell \in Shells :
       env' = [key \in Keys |-> IF key \in shell THEN "shell"
                               ELSE IF Value(file, key) # "none" THEN Value(file, key)
                               ELSE IF key \in Parent THEN "parent" ELSE "none"]
  /\ UNCHANGED <<waitVars, starterVars, fileVars, loaded, final>>

\* ensureEnv; defaultEnv replaces what is missing or empty.
EnsureEnv ==
  /\ client = "loaded"
  /\ IF \E key \in {"API_KEY"} \cup (IF Http THEN {} ELSE {"TARGET"}) : env[key] \in Missing
     THEN Quit("failed")
     ELSE /\ client' = "connect" /\ UNCHANGED <<loaded, final>>
          /\ env' = [key \in Keys |->
                       IF key \in {"LEVEL", "TRANSPORT"} /\ env[key] \in Missing
                       THEN "fallback" ELSE env[key]]
  /\ UNCHANGED <<waitVars, starterVars, fileVars>>

\* connectStdioMCP hands its environment to a server of its own, which loads it
\* and answers or exits; the starter and the client ask for READONLY.
ConnectStdio ==
  /\ client = "connect" /\ ~Http
  /\ \E e \in Environments :
       LET level == IF env["LEVEL"] \in Containers \cup {"fallback"}
                    THEN Word("READONLY") ELSE e.level
           settings == [e EXCEPT !.level = level, !.transport = Word("stdio"),
                                 !.target = TRUE]
       IN IF Accepts(settings)
          THEN /\ client' = "agent" /\ UNCHANGED <<env, final>>
               /\ loaded' = [started |-> TRUE, connect |-> settings.connect,
                             query |-> settings.query]
          ELSE Quit("failed")
  /\ UNCHANGED <<waitVars, starterVars, fileVars>>

\* connectHTTPMCP: somebody else has started the server.
ConnectHTTP ==
  /\ client = "connect" /\ Http
  /\ client' = "agent"
  /\ UNCHANGED <<waitVars, starterVars, fileVars, env, loaded, final>>

\* An assistant message with text; it may come with tool calls, whose errors
\* are text for the agent.
Speak ==
  /\ client = "agent" /\ final = "none"
  /\ final' = "text"
  /\ UNCHANGED <<waitVars, starterVars, fileVars, client, env, loaded>>

\* No more events.
AgentEnds ==
  /\ client = "agent"
  /\ Quit(IF final = "none" THEN "failed" ELSE "answered")
  /\ UNCHANGED <<waitVars, starterVars, fileVars>>

\* Connecting fails, no tools are found, an event is an error.
ClientFails ==
  /\ client \in {"connect", "agent"}
  /\ Quit("failed")
  /\ UNCHANGED <<waitVars, starterVars, fileVars>>

Client == \/ LoadEnv \/ EnsureEnv \/ ConnectStdio
          \/ ConnectHTTP \/ Speak \/ AgentEnds \/ ClientFails

Over == /\ ~Ongoing /\ client \in {"failed", "answered"}
        /\ UNCHANGED demoVars

DemoNext == Edit \/ Starter \/ Kill \/ (\E c \in Containers : Reap(c)) \/ Client \/ Over

DemoSpec == DemoInit /\ [][DemoNext]_demoVars

-----------------------------------------------------------------------------
\* "The starter also refreshes .env [...] after the database has been seeded":
\* at every moment, a container that the file, or a client that has read it,
\* names is one whose seed script ran to its end.
OnlySeededIsNamed ==
  \A c \in Containers :
    (\E n \in 1 .. Len(file) : file[n].by = c) \/ (\E key \in Keys : env[key] = c)
      => batches[c] = Batches

\* What the client reads while the starter waits for Enter.  A rewrite neither
\* repairs nor breaks a file.  In one that can be read, the target and the level
\* are the starter's, unless the last line for them has a form that the starter
\* does not know and follows one that it does; what the file said of the other
\* keys counts as before if a plain line said it, and is else the default; and
\* what the user has changed since is the user's.
Overridden(lines, key) ==
  \E n \in 1 .. Len(lines) :
    /\ lines[n].key = key /\ lines[n].form # "plain" /\ key \in Seen(lines)
    /\ \A m \in n + 1 .. Len(lines) : lines[m].key # key

SettingsTakeEffect ==
  starter = "enter" =>
    /\ Readable(file) <=> Readable(draft)
    /\ Readable(draft) =>
         /\ \A key \in replacements :
              Value(file, key) = IF Overridden(draft, key) THEN Value(draft, key) ELSE current
         /\ \A key \in defaults :
              Value(file, key) \in
                {"user", IF key \in Seen(draft) THEN Value(draft, key) ELSE "default"}

\* However often it is rewritten, .env has no plain key twice, unless it had one
\* at first.
KeysOnce(lines) ==
  \A m, n \in 1 .. Len(lines) :
    envLineKey(lines[m]) = envLineKey(lines[n]) /\ envLineKey(lines[m]) # NoKey => m = n
NoKeyTwice == (\A lines \in FirstFiles : KeysOnce(lines)) => KeysOnce(file)

\* A rewrite keeps every line it has read in its place: the file only grows,
\* and a line changes only if it sets a key that is the starter's to replace.
UserLinesAreKept ==
  [][starter = "write" /\ starter' = "enter" =>
       /\ Len(draft) <= Len(file')
       /\ \A n \in 1 .. Len(draft) :
            file'[n] # draft[n] => /\ envLineKey(draft[n]) \in replacements
                                   /\ envLineKey(file'[n]) = envLineKey(draft[n])]_demoVars

\* The timeouts of a server that accepted its settings are the seconds that
\* were asked for: none has wrapped around into a short or negative one.
TimeoutsAreExact ==
  loaded.started => /\ ExactTimeout(loaded.connect, ConnectFallback)
                    /\ ExactTimeout(loaded.query, QueryFallback)
=============================================================================
