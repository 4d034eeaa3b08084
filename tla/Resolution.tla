------------------------------ MODULE Resolution ------------------------------
(****************************************************************************)
(* SemanticAnalyzer over one source file.  Pass 1 gives every function      *)
(* declaration a symbol and a signature; the prelude gets the symbols after *)
(* those; pass 2 walks the bodies, with a stack of enclosing scopes and the *)
(* scope in use beside it, declares parameters and locals and resolves      *)
(* every use of a name.  Types come from TypeTable, whose steps are steps   *)
(* of this specification wherever an annotation may be written.             *)
(*                                                                          *)
(* The file is chosen as it is read.  An expression is the names it uses.   *)
(* A parameter's position is its annotation's.  A scope maps every name to  *)
(* a symbol, NoSymbol when the C++ map has no entry.                        *)
(****************************************************************************)
EXTENDS TypeTable

CONSTANTS
    Names,         \* the identifiers of the file
    Builtins,      \* those that buildPreludeScope declares, in its order
    MaxFunctions,  \* bound: function declarations
    MaxBlocks      \* bound: blocks opened, the prelude and the file counted

ASSUME ResolutionAssumption ==
    /\ Builtins \in Seq(Names)
    /\ \A i, j \in DOMAIN Builtins : Builtins[i] = Builtins[j] => i = j
    /\ MaxFunctions \in Nat
    /\ MaxBlocks \in Nat

VARIABLES
    pass,           \* "collect", "bodies"
    declaring,      \* collectFunctionDecl's locals
    functions,      \* the declarations of the file: name, at, parameters
    symbols,        \* symbols_
    topLevelNames,  \* the file scope
    preludeScope,
    scope,          \* the current scope
    scopeStack,     \* the scopes around it, prelude first
    doing,          \* the function the analyzer is in
    local,          \* the declaration whose annotation or initializer is analyzed
    body,           \* pass 2: which function
    parameter,      \* pass 2: how many of its parameters are declared
    resolutions,    \* history: every use and what it was resolved to
    blockOf,        \* history: the block each symbol is declared in
    enclosing,      \* history: the blocks around each block, itself included
    chain           \* history: the blocks around the current position

collectVars == <<pass, declaring, functions, topLevelNames, preludeScope>>

walkVars == <<scope, scopeStack, doing, local, body, parameter>>

historyVars == <<resolutions, blockOf, enclosing, chain>>

vars == <<typeVars, collectVars, symbols, walkVars, historyVars>>

NoSymbol == 0

EmptyScope == [n \in Names |-> NoSymbol]

Symbol(kind, name, at, type, parameterTypes) ==
    [kind |-> kind, name |-> name, at |-> at, type |-> type, parameterTypes |-> parameterTypes]

\* The program text has no place for a builtin, so nothing is declared at 0.
Builtin(name) == Symbol("Builtin", name, 0, Unresolved, <<>>)

NoDeclaration == [name |-> "", at |-> 0, existing |-> NoSymbol, parameters |-> <<>>, types |-> <<>>]

NoLocal == [name |-> "", at |-> 0, type |-> Unresolved]

PreludeBlock == 1

FileBlock == 2

Last(s) == s[Len(s)]

ReadOn == here < MaxPosition /\ here' = here + 1

----------------------------------------------------------------------------

Init ==
    /\ TypeInit
    /\ pass = "collect"
    /\ declaring = NoDeclaration
    /\ functions = <<>>
    /\ symbols = <<>>
    /\ topLevelNames = EmptyScope
    /\ preludeScope = EmptyScope
    /\ scope = EmptyScope
    /\ scopeStack = <<>>
    /\ doing = "file"
    /\ local = NoLocal
    /\ body = 0
    /\ parameter = 0
    /\ resolutions = {}
    /\ blockOf = <<>>
    /\ enclosing = <<{PreludeBlock}, {PreludeBlock, FileBlock}>>
    /\ chain = <<PreludeBlock, FileBlock>>

\* addSymbol and recordDeclaration
addSymbol(symbol, block) ==
    /\ symbols' = Append(symbols, symbol)
    /\ blockOf' = Append(blockOf, block)

DuplicateError(existing, at) ==
    IF existing = NoSymbol
    THEN errors
    ELSE Append(errors, SemanticError("DuplicateSymbol", at, symbols[existing].at))

----------------------------------------------------------------------------
(* Pass 1 *)

\* The name is looked up before the signature is resolved ...
collectFunctionDecl(name) ==
    /\ pass = "collect"
    /\ declaring = NoDeclaration
    /\ Len(functions) < MaxFunctions
    /\ ReadOn
    /\ declaring' = [name |-> name, at |-> here + 1, existing |-> topLevelNames[name],
                     parameters |-> <<>>, types |-> <<>>]
    /\ errors' = DuplicateError(topLevelNames[name], here + 1)
    /\ UNCHANGED <<tables, annotation, resolved, pass, functions, topLevelNames, preludeScope,
                   symbols, walkVars, historyVars>>

resolveSignatureType ==
    /\ declaring # NoDeclaration
    /\ resolveTypeSyntax
    /\ UNCHANGED <<collectVars, symbols, walkVars, historyVars>>

resolveParameter(name) ==
    /\ declaring # NoDeclaration
    /\ annotation # NoAnnotation
    /\ declaring' = [declaring EXCEPT
                        !.parameters = Append(@, [name |-> name, at |-> annotation.at]),
                        !.types = Append(@, annotation.type)]
    /\ annotation' = NoAnnotation
    /\ UNCHANGED <<tables, errors, resolved, here, pass, functions, topLevelNames, preludeScope,
                   symbols, walkVars, historyVars>>

\* ... and the symbol is added after.  An annotation left over is the return type,
\* which nothing here reads.
addFunction ==
    /\ declaring # NoDeclaration
    /\ addSymbol(Symbol("Function", declaring.name, declaring.at, Unresolved, declaring.types),
                 FileBlock)
    /\ functions' = Append(functions, [name |-> declaring.name, at |-> declaring.at,
                                       parameters |-> declaring.parameters])
    /\ topLevelNames' =
           IF declaring.existing = NoSymbol
           THEN [topLevelNames EXCEPT ![declaring.name] = Len(symbols) + 1]
           ELSE topLevelNames
    /\ declaring' = NoDeclaration
    /\ annotation' = NoAnnotation
    /\ UNCHANGED <<tables, errors, resolved, here, pass, preludeScope, walkVars,
                   resolutions, enclosing, chain>>

buildPreludeScope ==
    /\ pass = "collect"
    /\ declaring = NoDeclaration
    /\ pass' = "bodies"
    /\ symbols' = symbols \o [i \in DOMAIN Builtins |-> Builtin(Builtins[i])]
    /\ blockOf' = blockOf \o [i \in DOMAIN Builtins |-> PreludeBlock]
    /\ preludeScope' =
           [n \in Names |-> IF \E i \in DOMAIN Builtins : Builtins[i] = n
                            THEN Len(symbols) + CHOOSE i \in DOMAIN Builtins : Builtins[i] = n
                            ELSE NoSymbol]
    /\ UNCHANGED <<typeVars, declaring, functions, topLevelNames, walkVars,
                   resolutions, enclosing, chain>>

----------------------------------------------------------------------------
(* Pass 2: scopes and names *)

Block == chain[Len(chain)]

\* The history of entering a block and of leaving it.
EnterBlock ==
    /\ Len(enclosing) < MaxBlocks
    /\ chain' = Append(chain, Len(enclosing) + 1)
    /\ enclosing' = Append(enclosing, {chain[i] : i \in DOMAIN chain} \cup {Len(enclosing) + 1})

LeaveBlock ==
    /\ chain' = SubSeq(chain, 1, Len(chain) - 1)
    /\ UNCHANGED enclosing

\* Fault: the last declaration of a name wins.
declareLast(into, kind, name, at, type, block) ==
    /\ errors' = DuplicateError(into[name], at)
    /\ addSymbol(Symbol(kind, name, at, type, <<>>), block)
    /\ scope' = [into EXCEPT ![name] = Len(symbols) + 1]

\* Fault: the next symbol's number is taken after this one is stored.
declareOnePast(into, kind, name, at, type, block) ==
    /\ errors' = DuplicateError(into[name], at)
    /\ addSymbol(Symbol(kind, name, at, type, <<>>), block)
    /\ scope' = IF into[name] = NoSymbol
                THEN [into EXCEPT ![name] = Len(symbols) + 2]
                ELSE into

\* Only the scope declared into is asked whether the name exists.
declareInScope(into, kind, name, at, type, block) ==
    /\ errors' = DuplicateError(into[name], at)
    /\ addSymbol(Symbol(kind, name, at, type, <<>>), block)
    /\ scope' = IF into[name] = NoSymbol
                THEN [into EXCEPT ![name] = Len(symbols) + 1]
                ELSE into

\* Fault: the scope stack is walked from the front.
lookupOutermost(name) ==
    LET holding == {i \in DOMAIN scopeStack : scopeStack[i][name] # NoSymbol}
    IN  IF scope[name] # NoSymbol THEN scope[name]
        ELSE IF holding = {} THEN NoSymbol
        ELSE scopeStack[CHOOSE i \in holding : \A j \in holding : i <= j][name]

\* The current scope, then the stack from the back.
lookupIdentifier(name) ==
    LET holding == {i \in DOMAIN scopeStack : scopeStack[i][name] # NoSymbol}
    IN  IF scope[name] # NoSymbol THEN scope[name]
        ELSE IF holding = {} THEN NoSymbol
        ELSE scopeStack[CHOOSE i \in holding : \A j \in holding : j <= i][name]

\* A nested scope: the current one goes on the stack while it is open.
pushScope ==
    /\ scopeStack' = Append(scopeStack, scope)
    /\ EnterBlock

\* Fault: the function is looked up by name (and arity): the first one is found.
firstOfThatName(at) ==
    First({id \in DOMAIN symbols :
              /\ symbols[id].kind = "Function"
              /\ symbols[id].name = functions[body].name
              /\ Len(symbols[id].parameterTypes) = Len(functions[body].parameters)})

\* The symbol that Pass 1 recorded for a declaration.
declarationSymbol(at) == CHOOSE id \in DOMAIN symbols : symbols[id].at = at

----------------------------------------------------------------------------
(* Pass 2: functions *)

Function == functions[body]

\* Parameters are declared before anything in the body, into the same scope.
AtStatement == doing = "statements" /\ parameter = Len(Function.parameters)

analyzeFunctionBody ==
    /\ pass = "bodies"
    /\ doing = "file"
    /\ body < Len(functions)
    /\ body' = body + 1
    /\ parameter' = 0
    /\ scope' = EmptyScope
    /\ scopeStack' = <<preludeScope, topLevelNames>>
    /\ doing' = "statements"
    /\ EnterBlock
    /\ UNCHANGED <<typeVars, collectVars, symbols, local, resolutions, blockOf>>

\* Fault: the parameter's annotation is resolved again.
resolveAgain ==
    /\ doing = "statements"
    /\ parameter < Len(Function.parameters)
    /\ parameter' = parameter + 1
    /\ LET p == Function.parameters[parameter + 1]
           parameterTypes == symbols[declarationSymbol(Function.at)].parameterTypes
       IN  /\ addSymbol(Symbol("Parameter", p.name, p.at, parameterTypes[parameter + 1], <<>>), Block)
           /\ scope' = [scope EXCEPT ![p.name] = Len(symbols) + 1]
           /\ errors' = IF parameterTypes[parameter + 1] = ErrorType
                        THEN Append(errors, SemanticError("UnknownType", p.at, 0))
                        ELSE errors
    /\ UNCHANGED <<tables, annotation, resolved, here, collectVars, scopeStack, doing,
                   local, body, resolutions, enclosing, chain>>

\* A parameter's type is read back from the function's own signature.
declareParameter ==
    /\ doing = "statements"
    /\ parameter < Len(Function.parameters)
    /\ parameter' = parameter + 1
    /\ LET p == Function.parameters[parameter + 1]
           parameterTypes == symbols[declarationSymbol(Function.at)].parameterTypes
       IN  declareInScope(scope, "Parameter", p.name, p.at, parameterTypes[parameter + 1], Block)
    /\ UNCHANGED <<tables, annotation, resolved, here, collectVars, scopeStack, doing,
                   local, body, resolutions, enclosing, chain>>

finishFunctionBody ==
    /\ AtStatement
    /\ Len(scopeStack) = 2
    /\ doing' = "file"
    /\ LeaveBlock
    /\ UNCHANGED <<typeVars, collectVars, symbols, scope, scopeStack, local, body,
                   parameter, resolutions, blockOf>>

----------------------------------------------------------------------------
(* Pass 2: statements *)

Begin(part, declared) ==
    /\ doing' = part
    /\ local' = declared
    /\ UNCHANGED <<tables, errors, annotation, resolved, collectVars, symbols, scope, scopeStack,
                   body, parameter, historyVars>>

varDecl(name) ==
    /\ AtStatement
    /\ ReadOn
    /\ Begin("annotation", [name |-> name, at |-> here + 1, type |-> Unresolved])

resolveLocalType ==
    /\ doing = "annotation"
    /\ resolveTypeSyntax
    /\ UNCHANGED <<collectVars, symbols, walkVars, historyVars>>

\* declareLocal: the annotation, if any, then the initializer, then the name.
declareLocalType ==
    /\ doing = "annotation"
    /\ doing' = "initializer"
    /\ local' = [local EXCEPT !.type = annotation.type]
    /\ annotation' = NoAnnotation
    /\ UNCHANGED <<tables, errors, resolved, here, collectVars, symbols, scope, scopeStack,
                   body, parameter, historyVars>>

declareLocal ==
    /\ doing = "initializer"
    /\ doing' = "statements"
    /\ declareInScope(scope, "Local", local.name, local.at, local.type, Block)
    /\ local' = NoLocal
    /\ UNCHANGED <<tables, annotation, resolved, here, collectVars, scopeStack, body,
                   parameter, resolutions, enclosing, chain>>

\* The names in an expression statement, a returned value or the condition of an if or
\* a while are analyzed in the scope the statement is in.
analyzeIdentifierExpr(name) ==
    /\ AtStatement \/ doing \in {"initializer", "iterable"}
    /\ ReadOn
    /\ LET found == lookupIdentifier(name)
       IN  /\ resolutions' = resolutions \cup
                  {[name |-> name, at |-> here + 1, symbol |-> found, block |-> Block,
                    initializes |-> IF doing = "initializer" THEN local.at ELSE 0]}
           /\ errors' = IF found = NoSymbol
                        THEN Append(errors, SemanticError("UnknownIdentifier", here + 1, 0))
                        ELSE errors
    /\ UNCHANGED <<tables, annotation, resolved, collectVars, symbols, walkVars, blockOf,
                   enclosing, chain>>

\* The body of an if, an else-if, an else or a while, after its condition
analyzeNestedBlock ==
    /\ AtStatement
    /\ ReadOn
    /\ pushScope
    /\ scope' = EmptyScope
    /\ UNCHANGED <<tables, errors, annotation, resolved, collectVars, symbols, doing, local,
                   body, parameter, resolutions, blockOf>>

beginFor(name) ==
    /\ AtStatement
    /\ ReadOn
    /\ Begin("iterable", [name |-> name, at |-> here + 1, type |-> Unresolved])

\* analyzeForStmt: the variable and the body share one scope.
enterFor ==
    /\ doing = "iterable"
    /\ doing' = "statements"
    /\ pushScope
    /\ declareInScope(EmptyScope, "Local", local.name, local.at, Unresolved, Len(enclosing) + 1)
    /\ local' = NoLocal
    /\ UNCHANGED <<tables, annotation, resolved, here, collectVars, body, parameter, resolutions>>

popScope ==
    /\ AtStatement
    /\ Len(scopeStack) > 2
    /\ scope' = Last(scopeStack)
    /\ scopeStack' = SubSeq(scopeStack, 1, Len(scopeStack) - 1)
    /\ LeaveBlock
    /\ UNCHANGED <<typeVars, collectVars, symbols, doing, local, body, parameter, resolutions,
                   blockOf>>

----------------------------------------------------------------------------

collect ==
    \/ resolveSignatureType
    \/ addFunction
    \/ \E name \in Names : collectFunctionDecl(name) \/ resolveParameter(name)

analyzeStatement ==
    \/ resolveLocalType
    \/ declareLocalType
    \/ declareLocal
    \/ analyzeNestedBlock
    \/ enterFor
    \/ popScope
    \/ \E name \in Names : varDecl(name) \/ beginFor(name) \/ analyzeIdentifierExpr(name)

Next ==
    \/ collect
    \/ buildPreludeScope
    \/ analyzeFunctionBody
    \/ declareParameter
    \/ analyzeStatement
    \/ finishFunctionBody

Spec == Init /\ [][Next]_vars

----------------------------------------------------------------------------
(* What the names of a file mean, by its text alone *)

\* The declarations of a name around a use that are not the one it initializes.
Candidates(use) ==
    {id \in DOMAIN symbols :
        /\ symbols[id].name = use.name
        /\ blockOf[id] \in enclosing[use.block]
        /\ symbols[id].at < use.at
        /\ use.initializes # 0 => symbols[id].at # use.initializes}

\* Of those, the first of the innermost block; blocks are numbered from outside in.
Meaning(use) ==
    LET nearest == {id \in Candidates(use) :
                       \A other \in Candidates(use) : blockOf[other] <= blockOf[id]}
    IN  IF nearest = {} THEN NoSymbol ELSE First(nearest)

Earlier(id) ==
    {other \in 1..(id - 1) : /\ symbols[other].name = symbols[id].name
                             /\ blockOf[other] = blockOf[id]}

ErrorAt(error) == \E i \in DOMAIN errors : errors[i] = error

----------------------------------------------------------------------------

DeclarationSet ==
    [name : Names \cup {""}, at : Nat, existing : Nat, parameters : Seq([name : Names, at : Nat]),
     types : Seq(TypeSet)]

LocalSet == [name : Names \cup {""}, at : Nat, type : TypeSet]

TypeOK ==
    /\ pass \in {"collect", "bodies"}
    /\ declaring \in DeclarationSet
    /\ local \in LocalSet
    /\ \A id \in DOMAIN symbols :
          symbols[id].kind \in {"Function", "Builtin", "Parameter", "Local"}
    /\ blockOf \in Seq(DOMAIN enclosing)
    /\ {topLevelNames, preludeScope, scope} \subseteq [Names -> 0..Len(symbols)]
    /\ scopeStack \in Seq([Names -> 0..Len(symbols)])
    /\ body \in 0..Len(functions)
    /\ chain \in Seq(DOMAIN enclosing)

\* Every use keeps the meaning the text gives it, whatever is declared after it: the
\* first declaration in the innermost block that has one, never the variable whose
\* initializer it is in, a function wherever in the file it stands, a builtin unless
\* anything at all shadows it.  A use without a meaning is reported, no other one is.
ResolvesLexically ==
    \A use \in resolutions :
        /\ use.symbol = Meaning(use)
        /\ ErrorAt(SemanticError("UnknownIdentifier", use.at, 0)) <=> use.symbol = NoSymbol

\* A declaration is reported as a duplicate exactly when its own block already has that
\* name, and the report points at the first one; a parameter and a local of the outermost
\* body block collide, a shadowed name or a builtin does not.
DuplicatesReported ==
    \A id \in DOMAIN symbols : symbols[id].kind # "Builtin" =>
        \A related \in 0..MaxPosition :
            ErrorAt(SemanticError("DuplicateSymbol", symbols[id].at, related)) <=>
                /\ Earlier(id) # {}
                /\ related = symbols[First(Earlier(id))].at

\* A parameter has the type of its own annotation, in the body of a second function of
\* the same name too, which the file scope does not know.
ParametersKeepTheirTypes ==
    \A id \in DOMAIN symbols : symbols[id].kind = "Parameter" =>
        \E a \in resolved : /\ a.at = symbols[id].at
                            /\ a.type = symbols[id].type
                            /\ \A b \in resolved : b.at = a.at => Len(b.wraps) <= Len(a.wraps)

----------------------------------------------------------------------------
(* Why names are resolved lexically *)

Declared(block, name) == {id \in DOMAIN symbols : blockOf[id] = block /\ symbols[id].name = name}

\* What the scope of a block holds: the first declaration of each name.
ScopeOf(block) ==
    [n \in Names |-> IF Declared(block, n) = {} THEN NoSymbol ELSE First(Declared(block, n))]

IsList(s) == s \in Seq({s[i] : i \in DOMAIN s})

Lists ==
    /\ IsList(symbols) /\ IsList(functions) /\ IsList(errors) /\ IsList(enclosing)
    /\ IsList(declaring.parameters)
    /\ \A p \in DOMAIN declaring.parameters : declaring.parameters[p].name \in Names
    /\ \A f \in DOMAIN functions :
          /\ IsList(functions[f].parameters)
          /\ \A p \in DOMAIN functions[f].parameters : functions[f].parameters[p].name \in Names
    /\ parameter \in Nat
    /\ doing # "file" => body \in DOMAIN functions

\* The blocks around a position are numbered from outside in, and every block
\* remembers those around itself.
Chains ==
    /\ Len(enclosing) >= FileBlock
    /\ \A b \in DOMAIN enclosing : enclosing[b] \subseteq DOMAIN enclosing
    /\ Len(chain) >= FileBlock
    /\ chain[1] = PreludeBlock /\ chain[2] = FileBlock
    /\ \A i, j \in DOMAIN chain : i < j => chain[i] < chain[j]
    /\ \A i \in DOMAIN chain : enclosing[chain[i]] = {chain[j] : j \in 1..i}
    /\ Len(blockOf) = Len(symbols)

\* Every scope of the stack holds what its block has declared so far.
Scopes ==
    /\ topLevelNames = ScopeOf(FileBlock)
    /\ pass = "bodies" => preludeScope = ScopeOf(PreludeBlock)
    /\ pass = "collect" =>
          /\ doing = "file"
          /\ resolutions = {}
          /\ \A id \in DOMAIN symbols : blockOf[id] = FileBlock
    /\ declaring # NoDeclaration =>
          /\ pass = "collect"
          /\ declaring.name \in Names
          /\ declaring.existing = topLevelNames[declaring.name]
    /\ doing = "file" => Len(chain) = 2
    /\ doing # "file" =>
          /\ Len(chain) = Len(scopeStack) + 1
          /\ Len(chain) > 2
          /\ \A i \in DOMAIN scopeStack : scopeStack[i] = ScopeOf(chain[i])
          /\ scope = ScopeOf(Block)

\* Whatever is declared next cannot change what an earlier use means.
Positions ==
    /\ \A id \in DOMAIN symbols : symbols[id].at \in 0..here
    /\ \A use \in resolutions : use.at \in 0..here /\ use.block \in DOMAIN enclosing
    /\ \A i \in DOMAIN errors : errors[i].at \in 0..here
    /\ \A f \in DOMAIN functions : \A p \in DOMAIN functions[f].parameters :
          functions[f].parameters[p].at \in 0..here
    /\ \A p \in DOMAIN declaring.parameters : declaring.parameters[p].at \in 0..here
    /\ declaring.at \in 0..here
    /\ annotation.at \in 0..here
    /\ doing \in {"annotation", "initializer", "iterable"} =>
          /\ parameter = Len(Function.parameters)
          /\ local.name \in Names
          /\ local.at \in 1..here
          /\ \A id \in DOMAIN symbols : symbols[id].at < local.at
    /\ doing \in {"annotation", "initializer"} =>
          \A use \in resolutions : use.at > local.at => use.initializes = local.at
    /\ doing = "statements" /\ parameter < Len(Function.parameters) =>
          \A use \in resolutions : Block \notin enclosing[use.block]

IInv == TypeOK /\ TableInv /\ Lists /\ Chains /\ Scopes /\ Positions /\ ResolvesLexically

----------------------------------------------------------------------------
(* Why types and duplicates are reported as they are *)

\* A position belongs to one annotation, whose unknown name has one report.
UnknownInv ==
    /\ \A a \in resolved : a.at \in 1..here
    /\ \A a, b \in resolved : a.at = b.at => a.base = b.base
    /\ \A a \in resolved : a.base \in UnknownNames => ErrorAt(SemanticError("UnknownType", a.at, 0))
    /\ \A i \in DOMAIN errors : errors[i].kind = "UnknownType" =>
          \E a \in resolved : a.at = errors[i].at /\ a.base \in UnknownNames
    /\ \A i, j \in DOMAIN errors :
          errors[i].kind = "UnknownType" /\ errors[j].kind = "UnknownType"
          /\ errors[i].at = errors[j].at => i = j

\* The type an annotation has once it is resolved to its outermost level.
Settled(at, type, calls) ==
    \E a \in calls : /\ a.at = at
                     /\ a.type = type
                     /\ \A b \in calls : b.at = at => Len(b.wraps) <= Len(a.wraps)

Final(at, type) == Settled(at, type, resolved) /\ annotation.at # at

\* The functions are the first symbols, and their signatures hold the types of their
\* parameters' own annotations.
Signatures ==
    /\ annotation # NoAnnotation =>
          \A b \in resolved : b.at = annotation.at => Len(b.wraps) <= Len(annotation.wraps)
    /\ Len(declaring.types) = Len(declaring.parameters)
    /\ \A p \in DOMAIN declaring.parameters : Final(declaring.parameters[p].at, declaring.types[p])
    /\ pass = "collect" => Len(symbols) = Len(functions)
    /\ \A f \in DOMAIN functions :
          /\ f \in DOMAIN symbols
          /\ symbols[f].at = functions[f].at
          /\ \A p \in DOMAIN functions[f].parameters :
                Final(functions[f].parameters[p].at, symbols[f].parameterTypes[p])
    /\ \A id \in DOMAIN symbols :
          /\ symbols[id].kind = "Function" => id \in DOMAIN functions
          /\ symbols[id].kind = "Builtin" => symbols[id].at = 0
          /\ symbols[id].kind = "Parameter" => Final(symbols[id].at, symbols[id].type)

ParameterPlaces == UNION {{f} \X DOMAIN functions[f].parameters : f \in DOMAIN functions}

ParameterAt(place) == functions[place[1]].parameters[place[2]].at

\* The parameters that pass 2 has declared so far.
IsDeclared(place) == place[1] < body \/ (place[1] = body /\ place[2] <= parameter)

\* The declaration being collected is at positions that nothing else has, ...
DeclaringApart ==
    /\ declaring # NoDeclaration => declaring.at # 0
    /\ \A a \in resolved : a.at # declaring.at
    /\ \A f \in DOMAIN functions : functions[f].at # declaring.at
    /\ \A p, q \in DOMAIN declaring.parameters :
          declaring.parameters[p].at = declaring.parameters[q].at => p = q
    /\ \A place \in ParameterPlaces : \A p \in DOMAIN declaring.parameters :
          declaring.parameters[p].at # ParameterAt(place)

\* ... so are the functions and their parameters, ...
FunctionsApart ==
    /\ \A f \in DOMAIN functions :
          functions[f].at \in 1..here /\ \A a \in resolved : a.at # functions[f].at
    /\ \A place, other \in ParameterPlaces : ParameterAt(place) = ParameterAt(other) => place = other

\* ... the locals, which come after every parameter ...
LocalsApart ==
    \A place \in ParameterPlaces :
        /\ doing \in {"annotation", "initializer", "iterable"} => ParameterAt(place) < local.at
        /\ \A id \in DOMAIN symbols : symbols[id].kind = "Local" => symbols[id].at # ParameterAt(place)

\* ... and all the symbols but the builtins.
SymbolsApart ==
    \A id \in DOMAIN symbols :
        /\ symbols[id].kind = "Parameter" =>
              \E place \in ParameterPlaces : IsDeclared(place) /\ symbols[id].at = ParameterAt(place)
        /\ symbols[id].kind # "Builtin" =>
              \A other \in DOMAIN symbols : symbols[other].at = symbols[id].at => other = id

OwnPositions == DeclaringApart /\ FunctionsApart /\ LocalsApart /\ SymbolsApart

\* The declaration that a symbol's report points at.
FirstOfIts(id) == symbols[First(Earlier(id))].at

DuplicateOf(error, at, first) == error = SemanticError("DuplicateSymbol", at, first)

\* Every report is a declaration's, and every second declaration has its own.
DuplicatesInv ==
    /\ \A id \in DOMAIN symbols : symbols[id].kind # "Builtin" /\ Earlier(id) # {} =>
          ErrorAt(SemanticError("DuplicateSymbol", symbols[id].at, FirstOfIts(id)))
    /\ declaring # NoDeclaration /\ declaring.existing # NoSymbol =>
          ErrorAt(SemanticError("DuplicateSymbol", declaring.at, symbols[declaring.existing].at))
    /\ \A i \in DOMAIN errors : errors[i].kind = "DuplicateSymbol" =>
          \/ \E id \in DOMAIN symbols : /\ symbols[id].kind # "Builtin"
                                        /\ Earlier(id) # {}
                                        /\ DuplicateOf(errors[i], symbols[id].at, FirstOfIts(id))
          \/ /\ declaring # NoDeclaration
             /\ declaring.existing # NoSymbol
             /\ DuplicateOf(errors[i], declaring.at, symbols[declaring.existing].at)

FileInv == UnknownInv /\ Signatures /\ OwnPositions /\ DuplicatesInv
=============================================================================
