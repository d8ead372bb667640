------------------------------- MODULE Toolchains -------------------------------
(***************************************************************************)
(* Three tables that must agree: what the installer of the EOJ server puts *)
(* on a machine (install_all_toolchains.sh), what the server offers on it  *)
(* (toolchain_discovery.py) and what the runner starts for an offer        *)
(* (compile_source in interactive_runner.py).                              *)
(*                                                                         *)
(* A machine is the set of its executable files and of its JDKs.  An offer *)
(* is the targetId a client sends back: a string, and for Java also the    *)
(* version and the vendor the string is made of.                           *)
(***************************************************************************)
EXTENDS Sequences, Naturals

Plain(id) == [lang |-> id, version |-> "", vendor |-> ""]
Java(version, vendor) == [lang |-> "java", version |-> version, vendor |-> vendor]

\* A Java home: /usr/lib/jvm/java-V-openjdk-amd64, temurin-V-jdk-amd64,
\* bellsoft-javaV-amd64, and /opt/jdk-V, /opt/graalvm-V.
Home(vendor, version) == [vendor |-> vendor, version |-> version]
Usr(names) == {"/usr/bin/" \o n : n \in names}
Local(names) == {"/usr/local/bin/" \o n : n \in names}
-----------------------------------------------------------------------------
(***************************************************************************)
(* install_all_toolchains.sh: a step that installs may fail without ending *)
(* the script, so a machine is what any set of its steps leaves behind;    *)
(* apt-get installs all packages of a step or none.  Only the keys of      *)
(* three repositories end the script, before any step but the first        *)
(* (curl | gpg under set -e): a machine with the essentials or nothing.    *)
(***************************************************************************)
\* The compiler that gcc calls for Objective-C, of the package gobjc.  No step
\* brings a program of that name.
Gobjc == "/usr/libexec/gcc/cc1obj"

Provides(step) ==
    CASE step = "essentials"  -> Usr({"gcc", "g++", "as", "python3"})
      [] step = "native"      -> Usr({"gcc", "g++", "clang", "clang++", "lli", "gdc", "ldc2",
                                      "nasm", "yasm", "as", "aarch64-linux-gnu-gcc",
                                      "arm-linux-gnueabihf-gcc"})
      [] step = "pascal"      -> Usr({"fpc"})
      [] step = "mono"        -> Usr({"mcs", "mono", "fsharpc", "dotnet"})
      [] step = "scripting"   -> Usr({"go", "rustc", "dart", "python3", "pypy3", "lua5.4",
                                      "luajit", "php", "node"}) \cup {Gobjc}
      [] step = "fasm"        -> Local({"fasm"})
      [] step = "kotlin"      -> Local({"kotlinc"}) \cup {"/opt/kotlinc/bin/kotlinc"}
      [] OTHER                -> {}

ProvidesJava(step) ==
    CASE step = "openjdk"  -> {Home("openjdk", v) : v \in {"21", "17", "11", "8"}}
      [] step = "temurin"  -> {Home("temurin", v) : v \in {"26", "25", "21", "17", "11", "8"}}
      [] step = "bellsoft" -> {Home("liberica", v) : v \in {"26", "25", "21", "17", "11", "8"}}
      [] step = "jdk26"    -> {Home("jdk", "26")}
      [] step = "jdk25"    -> {Home("jdk", "25")}
      [] step = "graalvm"  -> {Home("graalvm", v) : v \in {"21", "17"}}
      [] OTHER             -> {}

\* npm and npx come with the nodejs of NodeSource, not with the distribution's, and
\* the step for tsx does nothing without npm.
HasNpm(steps) == {"nodesource", "scripting"} \subseteq steps
ProvidesNode(steps) ==
    IF ~HasNpm(steps) THEN {}
    ELSE Usr({"npx"}) \cup (IF "tsx" \in steps THEN Usr({"tsx"}) ELSE {})

Machine(steps) == [files |-> UNION {Provides(s) : s \in steps} \cup ProvidesNode(steps),
                   homes |-> UNION {ProvidesJava(s) : s \in steps}]
-----------------------------------------------------------------------------
(***************************************************************************)
(* toolchain_discovery.py                                                  *)
(***************************************************************************)
\* shutil.which
OnPath(name, m) == \E d \in {"/usr/local/bin/", "/usr/bin/"} : d \o name \in m.files

Has(name, m) == OnPath(name, m)
HasKotlin(m) == Has("kotlinc", m) \/ "/opt/kotlinc/bin/kotlinc" \in m.files
\* Any SDK counts: the installer brings 8.0 and 9.0 together.
HasDotnet(m) == Has("dotnet", m)

If(condition, ids) == IF condition THEN {Plain(i) : i \in ids} ELSE {}

CStandards == {"c23", "c17", "c11", "c99", "c89"}
CppVersions == {"26", "23", "20", "17", "14", "11", "03"}

DiscoverC(m) ==
    If(Has("gcc", m), CStandards) \cup If(Has("clang", m), {"clang_" \o s : s \in CStandards})

\* clpp_ is followed by the standard without its "cpp".
DiscoverCpp(m) ==
    If(Has("g++", m), {"cpp" \o v : v \in CppVersions})
        \cup If(Has("clang++", m), {"clpp_" \o v : v \in CppVersions})

DiscoverPython(m) ==
    If(Has("python3", m), {"python3"}) \cup If(Has("pypy3", m), {"pypy3"})
        \cup If(Has("python2", m), {"python2"})

\* An OpenJDK offer is also made for /opt/jdk-V; directory names tell the rest.
DiscoverJava(m) ==
    {Java(h.version, IF h.vendor = "jdk" THEN "openjdk" ELSE h.vendor) : h \in m.homes}

DiscoverCs(m) ==
    If(HasDotnet(m), {"cs_net9", "cs_net8"}) \cup If(Has("mcs", m), {"cs_mono"})

DiscoverFsVb(m) ==
    (IF Has("fsharpc", m) \/ HasDotnet(m)
              THEN If(HasDotnet(m), {"fs_net"}) \cup If(Has("mono", m), {"fs_mono"}) ELSE {})
        \cup (IF Has("vbnc", m) \/ HasDotnet(m)
              THEN If(HasDotnet(m), {"vb_net"}) \cup If(Has("mono", m), {"vb_mono"}) ELSE {})

DiscoverPascal(m) == If(Has("fpc", m), {"pas_fpc", "pas_fpc_smart", "pas_tp", "pas_delphi"})

DiscoverAssembly_NoEmulator(m) ==
    If(Has("nasm", m), {"asm_nasm"}) \cup If(Has("yasm", m), {"asm_yasm"})
        \cup If(Has("as", m), {"asm_gas"}) \cup If(Has("fasm", m), {"asm_fasm"})
        \cup If(Has("aarch64-linux-gnu-gcc", m), {"asm_arm64"})
        \cup If(Has("arm-linux-gnueabihf-gcc", m), {"asm_arm32"})
DiscoverAssembly(m) ==
    If(Has("nasm", m), {"asm_nasm"}) \cup If(Has("yasm", m), {"asm_yasm"})
        \cup If(Has("as", m), {"asm_gas"}) \cup If(Has("fasm", m), {"asm_fasm"})
        \cup If(Has("aarch64-linux-gnu-gcc", m) /\ Has("qemu-aarch64", m), {"asm_arm64"})
        \cup If(Has("arm-linux-gnueabihf-gcc", m) /\ Has("qemu-arm", m), {"asm_arm32"})

DiscoverGoRust(m) == If(Has("go", m), {"go"}) \cup If(Has("rustc", m), {"rust"})

DiscoverNative(m) ==
    If(Has("gdc", m), {"gdc"}) \cup If(Has("ldc2", m), {"ldc"})
        \cup If(Has("gobjc", m) \/ Has("clang", m), {"objc"})
        \cup If(Has("lli", m) \/ Has("clang", m), {"llvm_ir"})

DiscoverScripts(m) ==
    If(Has("node", m), {"js_node"}) \cup If(Has("tsx", m) \/ Has("node", m), {"ts_tsx"})
        \cup If(HasKotlin(m), {"kotlin"}) \cup If(Has("dart", m), {"dart"})
        \cup If(Has("lua5.4", m), {"lua5.4"}) \cup If(Has("luajit", m), {"luajit"})
        \cup If(~Has("lua5.4", m) /\ ~Has("luajit", m) /\ Has("lua", m), {"lua"})
        \cup If(Has("php", m), {"php"})

\* discover_installed_languages: all that is offered on machine m.
Discover(m) ==
    UNION {DiscoverC(m), DiscoverCpp(m), DiscoverPython(m), DiscoverJava(m), DiscoverCs(m),
           DiscoverFsVb(m), DiscoverGoRust(m), DiscoverPascal(m), DiscoverAssembly(m), DiscoverNative(m), DiscoverScripts(m)}
-----------------------------------------------------------------------------
(***************************************************************************)
(* compile_source: what becomes of a program in the language l on machine  *)
(* m.  "unsupported": no branch has that name.  "missing": the branch      *)
(* starts a file that is not there.                                        *)
(***************************************************************************)
Needs(paths, m) == IF paths \subseteq m.files THEN "runs" ELSE "missing"
NeedsBare(names, m) == IF \A n \in names : OnPath(n, m) THEN "runs" ELSE "missing"

Cs == {"cs_mono", "csharp_mono", "mono_cs"}
CsNet == {"cs_net", "csharp", "cs", "cs_net8", "cs_net9"}
FsNet == {"fs_net", "fsharp", "fs", "fs_net8", "fs_net9"}
VbNet == {"vb_net", "vb", "visualbasic", "vb_net8", "vb_net9"}

\* The .NET languages fall back to Mono.
CompileManaged(l, m) ==
    IF l \in CsNet \cup FsNet \cup VbNet /\ OnPath("dotnet", m) THEN "runs"
    ELSE CASE l \in Cs \cup CsNet -> Needs(Usr({"mcs", "mono"}), m)
           [] l \in FsNet -> Needs(Usr({"fsharpc", "mono"}), m)
           [] l \in VbNet -> Needs(Usr({"vbnc", "mono"}), m)
           [] OTHER -> "unsupported"

CompileGoRust(l, m) ==
    CASE l \in {"rust", "rs"} -> Needs(Usr({"rustc"}), m)
      [] l \in {"go", "golang"} -> Needs(Usr({"go"}), m)
      [] OTHER -> "unsupported"

CompileNative(l, m) ==
    CASE l \in {"d_gdc", "d", "gdc"} -> Needs(Usr({"gdc"}), m)
      [] l \in {"objc_gcc", "objc", "objectivec", "objective-c"} ->
             Needs(Usr({"gcc"}) \cup {Gobjc}, m)
      [] l \in {"objc_clang", "clang_objc", "llvm_clang", "clang_ll"} -> Needs(Usr({"clang"}), m)
      [] l \in {"llvm_lli", "llvmir", "llvm", "ll"} -> Needs(Usr({"lli"}), m)
      [] OTHER -> "unsupported"

CompileLuaDartKotlin(l, m) ==
    CASE l \in {"lua54", "lua", "lua5.4"} -> Needs(Usr({"lua5.4"}), m)
      [] l \in {"lua53", "lua5.3"} -> Needs(Usr({"lua5.3"}), m)
      [] l \in {"lua51", "lua5.1"} -> Needs(Usr({"lua5.1"}), m)
      [] l \in {"luajit", "jit"} -> Needs(Usr({"luajit"}), m)
      [] l \in {"dart", "dartsdk"} -> NeedsBare({"dart"}, m)
      [] l \in {"kotlin", "kt", "kotlinc"} ->
             IF Home("openjdk", "21") \notin m.homes THEN "missing"
             ELSE IF "/opt/kotlin-2.1/bin/kotlinc" \in m.files THEN "runs"
             ELSE Needs(Usr({"kotlinc"}), m)
      [] OTHER -> "unsupported"

CompileScripts(l, m) ==
    CASE l \in {"php", "php8"} -> Needs(Usr({"php"}), m)
      [] l \in {"ts_tsx", "typescript", "ts"} ->
             IF OnPath("tsx", m) THEN "runs" ELSE NeedsBare({"npx"}, m)
      [] l \in {"js_node", "js", "javascript", "node"} -> NeedsBare({"node"}, m)
      [] OTHER -> "unsupported"

CompileAssembly(l, m) ==
    CASE l \in {"asm_arm64", "arm64", "aarch64"} ->
             NeedsBare({"aarch64-linux-gnu-gcc", "qemu-aarch64"}, m)
      [] l \in {"asm_arm32", "arm32", "armhf", "arm"} ->
             NeedsBare({"arm-linux-gnueabihf-gcc", "qemu-arm"}, m)
      [] l \in {"asm_nasm", "nasm", "assembly"} -> Needs(Usr({"nasm", "gcc"}), m)
      [] l \in {"asm_yasm", "yasm"} -> Needs(Usr({"yasm", "gcc"}), m)
      [] l \in {"asm_gas", "gas", "as"} -> Needs(Usr({"gcc"}), m)
      [] l \in {"asm_fasm", "fasm"} -> Needs(Usr({"fasm", "gcc"}), m)
      [] OTHER -> "unsupported"

ClangCpp == {p \o v : p \in {"clpp", "clangpp", "clang++"}, v \in CppVersions} \cup {"clpp98"}
GccCpp == {p \o v : p \in {"cpp", "g++"}, v \in CppVersions}
             \cup {"cpp", "c++", "g++", "cpp98", "g++98"}

CompileCpp(l, m) ==
    CASE l \in ClangCpp -> Needs(Usr({"clang++"}), m)
      [] l \in GccCpp -> Needs(Usr({"g++"}), m)
      [] OTHER -> "unsupported"

CNumbers == {"23", "17", "11", "99", "89"}
ClangC == {p \o v : p \in {"clang", "clang_c"}, v \in CNumbers} \cup {"clang90"}
GccC == {p \o v : p \in {"c", "gcc"}, v \in CNumbers} \cup {"c18", "c", "gcc", "c90", "gcc90"}

CompileC(l, m) ==
    CASE l \in ClangC -> Needs(Usr({"clang"}), m)
      [] l \in GccC -> Needs(Usr({"gcc"}), m)
      [] OTHER -> "unsupported"

CompilePascal(l, m) ==
    IF l \in {"pas_tp", "tp", "turbopascal", "pas_delphi", "delphi",
              "pas_fpc", "pascal", "pas", "fpc"}
    THEN Needs(Usr({"fpc"}), m) ELSE "unsupported"

CompilePython(l, m) ==
    CASE l \in {"python2", "py2", "cpython2"} ->
             IF "/usr/local/bin/python2" \in m.files THEN "runs"
             ELSE Needs({"/opt/python2.7/bin/python2.7"}, m)
      [] l \in {"pypy2", "pypy2.7"} ->
             IF "/usr/local/bin/pypy2" \in m.files THEN "runs"
             ELSE Needs({"/opt/pypy2.7/bin/pypy"}, m)
      [] l \in {"pypy3", "pypy"} -> Needs(Usr({"pypy3"}), m)
      [] l \in {"python3", "python", "py", "cpython3"} -> Needs(Usr({"python3"}), m)
      [] OTHER -> "unsupported"

\* The directory of the JDK: 26 and 25 are looked for before the vendor is.
JavaHome(version, vendor, m) ==
    CASE version \in {"26", "25"} ->
             IF Home("jdk", version) \in m.homes THEN Home("jdk", version)
             ELSE Home("openjdk", version)
      [] vendor = "graalvm" /\ ~(version = "17" /\ Home("graalvm", "17") \in m.homes) ->
             Home("graalvm", "21")
      [] OTHER -> Home(vendor, version)

\* A JDK that is not there is replaced by the one apt made the default.
CompileJava(version, vendor, m) ==
    LET used == JavaHome(version, vendor, m)
    IN CASE used \in m.homes ->
               IF used \in {Home(vendor, version)} \cup
                          (IF vendor = "openjdk" THEN {Home("jdk", version)} ELSE {})
               THEN "runs" ELSE "another"
         [] \E h \in m.homes : h.vendor \in {"openjdk", "temurin", "liberica"} -> "another"
         [] OTHER -> "missing"

Branches == {"managed", "gorust", "native", "luadart", "scripts", "assembly", "cpp", "c",
             "pascal", "python"}
Branch(b, l, m) ==
    CASE b = "managed" -> CompileManaged(l, m)   [] b = "gorust" -> CompileGoRust(l, m)
      [] b = "luadart" -> CompileLuaDartKotlin(l, m)   [] b = "native" -> CompileNative(l, m)
      [] b = "scripts" -> CompileScripts(l, m)   [] b = "assembly" -> CompileAssembly(l, m)
      [] b = "cpp" -> CompileCpp(l, m)           [] b = "c" -> CompileC(l, m)
      [] b = "pascal" -> CompilePascal(l, m)     [] b = "python" -> CompilePython(l, m)

\* compile_source: the first branch that has the name, and no other has it.
CompileSource(t, m) ==
    IF t.lang = "java" THEN CompileJava(t.version, t.vendor, m)
    ELSE LET known == {b \in Branches : Branch(b, t.lang, m) # "unsupported"}
         IN IF known = {} THEN "unsupported" ELSE Branch(CHOOSE b \in known : TRUE, t.lang, m)
=============================================================================
