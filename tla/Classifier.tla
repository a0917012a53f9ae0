----------------------------- MODULE Classifier -----------------------------
(***************************************************************************)
(* internal/classifier: which family a command belongs to, and whether it  *)
(* is simple enough for the reducer of that family to leave out success    *)
(* records.  A command is a sequence of words without their directories;   *)
(* `simple` is false when it holds a quote or any shell operator.  Of the  *)
(* names that the code takes alike (with .exe, .cmd or .bat, of an         *)
(* interpreter's version, of a toolchain) there are only a few.            *)
(***************************************************************************)
EXTENDS Naturals, Sequences, FiniteSetsExt

CONSTANTS
    Switches, \* the words that begin with "-"
    Attached  \* those that hold "=", and so their value

NoWord == ""

Php    == {"php", "php8.4", "php.exe"}
Python == {"python", "python3", "python.exe"}

(* Switches of php that take the next word, and those that take none or,   *)
(* as -f does, the program itself; those of artisan and composer.          *)
PhpValued == {"-d", "-c", "--define", "--php-ini"}
PhpSilent == {"-n", "--no-php-ini", "-f", "--file"}
Quiet     == {"--no-interaction", "-n", "--no-ansi", "--ansi"}

ASSUME ClassifierAssumption ==
    /\ PhpValued \cup PhpSilent \cup Quiet \cup {"-m"} \subseteq Switches \ Attached
    /\ Switches \cap {NoWord, "test", "install", "update", "artisan", "sail", "pest", "phpunit",
                      "pytest", "playwright", "vitest", "exec", "x"} = {}

At(words, i) == IF i \in DOMAIN words THEN words[i] ELSE NoWord

(* BuildReduction, after the check for shell operators.                    *)
Launched(words) ==
    LET bare == \/ words[1] \in {"pnpm", "yarn"} /\ At(words, 2) = "exec"
                \/ words[1] = "bun" /\ At(words, 2) = "x"
    IN  SubSeq(words, IF bare THEN 3 ELSE 2, Len(words))

Toolchain(words) == IF At(words, 2) = "+stable" THEN At(words, 3) ELSE At(words, 2)

Producer(words) ==
    LET exe == At(words, 1)
        run == IF exe \in {"npx", "pnpm", "yarn", "bun"} THEN Launched(words) ELSE <<>>
    IN  CASE exe = "pytest"                                        -> "pytest"
          [] exe = "cargo" /\ Toolchain(words) = "test"            -> "rust-test"
          [] exe = "dotnet" /\ At(words, 2) = "test"               -> "dotnet-test"
          [] exe = "playwright" /\ At(words, 2) = "test"           -> "playwright"
          [] exe = "go" /\ At(words, 2) = "test"                   -> "go-test"
          [] exe \in {"gradle", "gradlew"}                         -> "gradle"
          [] exe = "vitest"                                        -> "vitest"
          [] At(run, 1) = "playwright" /\ At(run, 2) = "test"      -> "playwright"
          [] At(run, 1) = "vitest"                                 -> "vitest"
          [] exe \in Python /\ At(words, 2) = "-m" /\ At(words, 3) = "pytest" -> "pytest"
          [] OTHER                                                 -> NoWord

(* Mutant: the check for shell operators forgotten. *)
ProducerOfAny(command) == Producer(command.words)

BuildReduction(command) == IF command.simple THEN Producer(command.words) ELSE NoWord

-----------------------------------------------------------------------------
(* PHPReduction.  The search for the program returns 0 when it meets a     *)
(* switch that it does not know.                                           *)
(* Mutant: such a switch is passed over. *)
AfterAnySwitch(words) ==
    LET f[i \in 2..Len(words) + 2] ==
          IF i > Len(words) THEN 0
          ELSE IF At(words, i) \in PhpValued THEN IF i = Len(words) THEN 0 ELSE f[i + 2]
          ELSE IF At(words, i) \in Switches THEN f[i + 1] ELSE i
    IN  f[2]

AfterInterpreter(words) ==
    LET f[i \in 2..Len(words) + 2] ==
          IF i > Len(words) THEN 0
          ELSE IF At(words, i) \in PhpValued THEN IF i = Len(words) THEN 0 ELSE f[i + 2]
          ELSE IF At(words, i) \in PhpSilent THEN f[i + 1]
          ELSE IF At(words, i) \in Switches THEN 0 ELSE i
    IN  f[2]

Entry(words) == IF At(words, 1) \in Php THEN AfterInterpreter(words) ELSE 1

(* The first word from `start` on that is none of the switches allowed.    *)
AfterSwitches(words, start, allowed) ==
    Min({i \in start..Len(words) + 1 : At(words, i) \notin allowed})

(* Mutant: every switch is passed over. *)
ArtisanTestsAnyhow(words, start) == At(words, AfterSwitches(words, start, Switches)) = "test"

ArtisanTests(words, start) ==
    At(words, AfterSwitches(words, start, (Switches \cap Attached) \cup Quiet)) = "test"

PhpProducer(words) ==
    LET e     == Entry(words)
        entry == IF e = 0 THEN NoWord ELSE At(words, e)
        next  == At(words, e + 1)
        verb  == At(words, AfterSwitches(words, e + 1, Quiet))
    IN  CASE entry \in {"phpunit", "phpunit.phar", "phpunit.bat", "pest", "pest.bat"} -> "php-test"
          [] entry = "sail" /\ next \in {"test", "pest", "phpunit"} -> "php-test"
          [] entry = "sail" /\ next = "artisan" /\ ArtisanTests(words, e + 2) -> "php-test"
          [] entry = "artisan" /\ ArtisanTests(words, e + 1) -> "php-test"
          [] /\ entry \in {"composer", "composer.phar", "composer.bat"}
             /\ verb \in {"install", "update"} -> "composer"
          [] OTHER -> NoWord

PHPReduction(command) == IF command.simple THEN PhpProducer(command.words) ELSE NoWord

-----------------------------------------------------------------------------
(* Detect: the patterns in their order, wherever their words stand in the  *)
(* command, and last what the output looks like.                           *)
Word(words, S)    == \E i \in DOMAIN words : words[i] \in S
Pair(words, S, T) == \E i \in DOMAIN words : words[i] \in S /\ At(words, i + 1) \in T

Via(words, S, w, T) ==
    Pair(words, S, T) \/ \E i \in DOMAIN words :
        words[i] \in S /\ At(words, i + 1) = w /\ At(words, i + 2) \in T

Patterns(words) ==
    << [name |-> "laravel",  on |-> Word(words, {"artisan", "sail"})],
       [name |-> "php-test", on |-> Word(words, {"phpunit", "phpunit.phar", "phpunit.bat",
                                                 "pest", "pest.phar", "pest.bat"})],
       [name |-> "composer", on |-> Word(words, {"composer", "composer.phar", "composer.bat"})],
       [name |-> "php",      on |-> Word(words, Php)],
       [name |-> "maven",    on |-> Word(words, {"mvn", "mvnw"})],
       [name |-> "gradle",   on |-> Word(words, {"gradle", "gradlew"})],
       [name |-> "playwright",   on |-> Pair(words, {"playwright"}, {"test"})],
       [name |-> "dotnet-test",  on |-> Pair(words, {"dotnet"}, {"test"})],
       [name |-> "dotnet-build", on |-> Pair(words, {"dotnet"}, {"build"})],
       [name |-> "vitest",   on |-> Word(words, {"vitest"})],
       [name |-> "node-test", on |-> \/ Via(words, {"npm", "pnpm", "yarn"}, "run", {"test"})
                                     \/ Word(words, {"jest", "mocha"})],
       [name |-> "pytest",   on |-> Word(words, {"pytest"})],
       [name |-> "go-test",  on |-> Pair(words, {"go"}, {"test"})],
       [name |-> "rust-test", on |-> Pair(words, {"cargo"}, {"test"})],
       [name |-> "kubernetes-log", on |-> Pair(words, {"kubectl"}, {"logs"})],
       [name |-> "docker-log", on |-> Via(words, {"docker"}, "compose", {"logs"})],
       [name |-> "terraform", on |-> Pair(words, {"terraform"}, {"plan", "apply"})],
       [name |-> "ansible",  on |-> Word(words, {"ansible-playbook"})] >>

Detect(command, looksLike) ==
    LET p  == Patterns(command.words)
        on == {i \in DOMAIN p : p[i].on}
    IN  CASE BuildReduction(command) # NoWord -> BuildReduction(command)
          [] BuildReduction(command) = NoWord /\ on # {} -> p[Min(on)].name
          [] OTHER -> looksLike

-----------------------------------------------------------------------------
(* What the two reductions are for, said without them: whoever reads the   *)
(* words, and whatever a switch that is not known means, the program that  *)
(* runs prints the records of this family.                                 *)

(* Where the words go on behind a switch: an unknown one may or may not    *)
(* take the next word.                                                     *)
Onward(words, i, silent, valued) ==
    {k \in {i + 1, i + 2} :
        /\ At(words, i) \in Switches
        /\ At(words, i) \in silent \cup Attached => k = i + 1
        /\ At(words, i) \in valued => k = i + 2}

(* The first word from `start` on that is no switch and no switch's value: *)
(* one for each way to read the switches before it.                        *)
Operands(words, start, silent, valued) ==
    {j \in start..Len(words) + 2 :
        /\ At(words, j) \notin Switches
        /\ \E S \in SUBSET (start..Len(words) + 2) :
             /\ {start, j} \subseteq S
             /\ \A i \in S \ {j} : Onward(words, i, silent, valued) \cap S # {}}

(* The programs that the program at p may turn out to run.                 *)
MayRun(words, p) ==
    LET exe  == At(words, p)
        next == Operands(words, p + 1, {}, {})
        behind(word) ==
          UNION {IF At(words, j) = word THEN Operands(words, j + 1, {}, {}) ELSE {j} : j \in next}
    IN  CASE exe \in Php              -> Operands(words, p + 1, PhpSilent, PhpValued)
          [] exe \in Python           -> Operands(words, p + 1, {"-m"}, {})
          [] exe = "npx"              -> next
          [] exe \in {"pnpm", "yarn"} -> behind("exec")
          [] exe = "bun"              -> behind("x")
          [] exe = "sail" -> {IF At(words, j) = "artisan" THEN j ELSE p : j \in next}
          [] OTHER                    -> {p}

Programs(words) == UNION {MayRun(words, p) : p \in MayRun(words, 1)}

(* Whether the program at p gets a verb of `verbs`, however it is read.    *)
GetsOneOf(words, p, silent, verbs) ==
    \A j \in Operands(words, p + 1, silent, {}) : At(words, j) \in verbs

Prints(words, p, kind) ==
    LET exe == At(words, p)
    IN  CASE kind = "pytest"      -> exe = "pytest"
          [] kind = "gradle"      -> exe \in {"gradle", "gradlew"}
          [] kind = "vitest"      -> exe = "vitest"
          [] kind = "go-test"     -> exe = "go" /\ GetsOneOf(words, p, {}, {"test"})
          [] kind = "dotnet-test" -> exe = "dotnet" /\ GetsOneOf(words, p, {}, {"test"})
          [] kind = "playwright"  -> exe = "playwright" /\ GetsOneOf(words, p, {}, {"test"})
          [] kind = "rust-test"   ->
               /\ exe = "cargo"
               /\ GetsOneOf(words, IF At(words, p + 1) = "+stable" THEN p + 1 ELSE p, {}, {"test"})
          [] kind = "php-test" ->
               \/ exe \in {"phpunit", "phpunit.phar", "phpunit.bat", "pest", "pest.bat"}
               \/ exe = "sail" /\ GetsOneOf(words, p, {}, {"test", "pest", "phpunit"})
               \/ exe = "artisan" /\ GetsOneOf(words, p, Quiet, {"test"})
          [] kind = "composer" ->
               /\ exe \in {"composer", "composer.phar", "composer.bat"}
               /\ GetsOneOf(words, p, Quiet, {"install", "update"})
          [] OTHER -> FALSE
=============================================================================
