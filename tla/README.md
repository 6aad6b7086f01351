# Verification of the JS bridge invocation core

TLA+ models of the call machinery of oasis-jsbridge-android: the code that lets
a script call a host (Java/Kotlin) method and a host call a script function,
on the Duktape engine (a value stack) and on QuickJS (reference-counted
`JSValue`s). The TLC runs check the models on small instances. TLAPS proves, for every bound,
every invariant and refinement those runs check: the host→script and
script→host calls, the proxy constructors and the invoker constructors.

## 1. The system

| Part (spec name) | Source | State it changes |
|---|---|---|
| HostMethodInvoker | `src/unnamed/part_001` (`JavaMethod.cpp`) | script→host call: argument vector `args`, Duktape stack / `argv` reference counts, temporary vararg array |
| ScriptMethodInvoker | `src/jsbridge/src/main/jni/JavaScriptMethod.cpp` | host→script call: Duktape stack / `jsArgs[]` slots and their reference counts, `ret` |
| ProxyObject | `src/jsbridge/src/main/jni/JavaScriptObject.cpp` | registration of a script object (`m_methods`, Duktape stack), dispatch of a host call |
| TypeDescriptor | `src/unnamed/part_000` (`Parameter.kt`, after the Gradle script) | none: pure reflection queries |
| EngineContext | `src/jsbridge/src/main/jni/JsBridgeContext.h` | declarations only; the implementation is not in the sources |

How the parts interact:
- A script call of a registered host method enters `JavaMethod::invoke`.
  - It reads the script's arguments and converts each one with the codec of its parameter (`JavaType`, not in the sources).
  - It then runs the method body built in the constructor: `callMethod`, or `callLambda` for a lambda.
- A host call on a registered script object enters `JavaScriptObject::call`.
  - This looks the method up in `m_methods`.
  - It then runs `JavaScriptMethod::invoke`, which pushes or converts the arguments, calls the function and converts the result.
- When the caller awaits a promise and the declared type is not already Deferred, a thenable result goes through the Deferred type.

What is hard here, and is the target of the properties:
- **Cleanup on exit paths:** every `JSValue` or stack slot acquired during a call must be released on every path, including an exception in the middle of the argument loop (spec §3 (c)).
- **Duktape stack discipline:** the call frame `duk_pcall` and `duk_pcall_prop` expect, and the entry height restored on exit (`CHECK_STACK`).
- **Arithmetic in the argument counts:** varargs, `minArgs` and the `size_t` count.
- **Registration:** the eager check at registration, and what it does and does not guarantee at call time.

## 2. Modules

| Module | Models | State → code |
|---|---|---|
| `JavaMethodBinding` | abstract: what a script→host call promises | `status` (calling, rejected, failed, invoked, returned, threw) and `bound`, the argument vector the body receives |
| `JavaMethodQjs` | `JavaMethod::invoke` QuickJS (part_001 146-194) + body | `pc`, loop index `i`, `args`, `argvRc[k]` references on `argv[k]`, `arrRc` on `varArgArray` |
| `JavaMethodDuk` | `JavaMethod::invoke` Duktape (part_001 103-142) + body | `stack` = argument positions on the value stack, `args`, `varArgCountPassed` (the count given to `popArray`) |
| `JavaScriptMethodQjs` | `JavaScriptMethod::invoke` QuickJS (164-222) | `jsArgs` filled slots, `rc[p]`, `arrRc`, `retRc`, `ub` (an unset slot was freed) |
| `JavaScriptMethodDuk` | `JavaScriptMethod::invoke` Duktape (101-158) | `stack` of `<<kind, position>>` entries pushed above the entry height, `numArguments` |
| `ProxyRegistration` | abstract: what registering a script object promises | `status`, `table` |
| `JavaScriptObjectDuk` / `JavaScriptObjectQjs` | constructor and `call()` of both engines | `pc`, `k`, `registered` (keys of `m_methods`), `stack` (Duktape), `lastCall` |
| `TypeDescriptor` | `Parameter.kt` (part_000 69-265) as pure operators | Kotlin types as `[classifier, args]`, Java classes as `[name, dims]`; `findJavaClass`, `getGenericParameter`, `getComponentType` |
| `MethodCodecs` | constructors of `JavaMethod` (part_001 35-97) and `JavaScriptMethod` (33-75) | `params`, loop index `i`, `argumentTypes` (`m_argumentTypes`, one codec `[of, boxed]` per position), `hasReturnType`, `methodBody` |
| `JavaScriptMethodQjsProofs`, `JavaScriptMethodDukProofs` | TLAPS proofs about the host→script invokers | |
| `JavaMethodQjsProofs`, `JavaMethodDukProofs` | TLAPS proofs about the script→host invokers, refinement included | |
| `JavaScriptObjectDukProofs`, `JavaScriptObjectQjsProofs` | TLAPS proofs about the proxy constructors, refinement included | |
| `MethodCodecsProofs` | TLAPS proofs about the invoker constructors and `Parameter.kt` | |

Each operation is one action, with the guard taken from the code's conditions
and early returns. Each conversion (`push`, `pop`, `fromJava`, `toJava`,
`toJavaArray`, `pushArray`) is a step that either succeeds or throws, because
the codecs are not in the sources. `JS_Call` and `duk_pcall` either return a
value or raise. Every call's inputs are chosen nondeterministically in `Init`:
- the argument counts;
- whether the method is variadic or a lambda;
- `awaitJsPromise`;
- whether the declared type is Deferred;
- for proxies, the object's properties.

Modelled from the spec, and marked `spec_modelled` in the map:
- Script code redefining a proxied object's properties after registration (`Mutate`).
- `pop()` of a result and `getCurrentJsException()`. These are outside the sources and are assumed, following the spec's ownership rule, to consume the value they read (comment in `JavaScriptMethodDuk`).

The detailed modules implement the abstract ones through
`INSTANCE ... WITH status <- status, bound <- bound` (and `table <- table`),
with the abstract `Spec` checked as a PROPERTY:
- `JavaMethodQjs` and `JavaMethodDuk` implement `JavaMethodBinding`.
- `JavaScriptObjectDuk` and `JavaScriptObjectQjs` implement `ProxyRegistration`.

## 3. Runs

All runs use `CHECK_DEADLOCK FALSE`: each model is one call, or one
registration followed by calls, and a call that has returned or thrown
rightly stops.

| Run | Checks | Result |
|---|---|---|
| `qjs_script_call` | TypeOK, NoLeakOnExit, NoFreeOfUnsetSlot, ArgsLiveAtCall | pass |
| `duk_script_call` | TypeOK, StackBalancedOnExit, CallFrameAtCall | pass |
| `qjs_host_binding` | TypeOK, BindingRefinement | pass |
| `qjs_host_vararg_leak` | NoLeakOnExit | **violation** |
| `duk_host_binding` | TypeOK, BindingRefinement | pass |
| `duk_vararg_count_wrap` | VarArgCountMatches | **violation** |
| `duk_proxy_registration` | TypeOK, RegistrationRefinement (any exception) | pass |
| `duk_proxy_stack` | StackAtExit (any exception) | pass |
| `duk_proxy_uncaught_wrap_error` | StackBalancedOnExit (any exception) | **violation** |
| `qjs_proxy_registration` | TypeOK, RegistrationRefinement | pass |
| `codec_tables` | TypeOK, CodecTableComplete | pass |
| `vararg_element_descriptor` | VarArgElementAsSpecified | **violation** |

Bounds. Each bound is big enough that every branch of the code is taken, and
each loop runs with zero, one and several iterations:
- **Invokers:** up to 3 Java arguments or parameters, 3 vararg elements and 4 script arguments. This covers:
  - fewer, exactly as many and more arguments than fixed parameters;
  - an empty vararg array;
  - a failure at the first, a middle and the last position.
- **Proxies:** 3 methods, so that the check can fail before or after other methods were wrapped.
- **Constructors:** up to 2 declared parameters (`MaxParams = 2`), each drawn from every Kotlin type of the universe (plain, generic over a plain type, a type parameter or a star, `Array<…>`, `IntArray`) and every Java class or array class. This gives a fixed parameter before the vararg, a vararg alone, and every kind of array parameter; a failure of `makeUniqueType` at each step.
- **Duktape `size_t`:** modelled with `SizeTBits = 16` (TLC integers are 32-bit). The wrap the finding shows happens in any width.

Each property of a passing run has a mutant in PROJECT.json: a plausible bug in
the mapped code that makes TLC find that property violated. Examples:
- the catch block freeing one slot too few;
- no `JS_DupValue` on the vararg elements;
- no `duk_remove`;
- `duk_pop` instead of `duk_pop_2`;
- varargs pushed in reverse order.

## 4. Findings

1. **QuickJS vararg leak** (`part_001:188`). When `toJavaArray` throws, the exception bypasses `JS_FreeValue(varArgArray)`. The array, and the reference it took on each trailing argument, leak.
2. **Duktape vararg count wraps** (`part_001:127`). `argCount - minArgs` is computed in `size_t`. A variadic method given fewer arguments than its fixed parameters asks `popArray` for about 2^64 values. The QuickJS flavour builds an empty array in the same case.
3. **Duktape proxy constructor leaves the object on the stack** (`JavaScriptObject.cpp:92`). Only `std::invalid_argument` is caught around building a method wrapper. Any other exception skips `duk_pop`, so the object stays on the stack. The QuickJS constructor catches `std::exception`.
4. **Vararg element codec differs from the spec** (`JavaScriptMethod.cpp:64`, `part_001:54`). Both constructors build the element codec with `getGenericParameter()`. For a parameter with only a Java class this gives `Object` (an `int[]` vararg is read as objects); for a Kotlin `IntArray` (`vararg x: Int`), which has no type argument, it gives null. The spec (§4.1, "Varargs element") asks for the generic element type, else the raw component type, else `OpaqueObject`: what `getComponentType()` (part_000:162) computes.

## 5. Proofs (TLAPS)

Seven modules hold the proofs. Each `...Proofs` module EXTENDS its model and
`TLAPS` and uses one layout:
- an inductive invariant `IInv`, checked by TLC as an invariant of a run before it was proved;
- `InitIInv` (`Init => IInv`), and `NextIInv` (`IInv /\ [Next]_vars => IInv'`) with one step per action;
- one theorem per property, `Spec => []P`, from `IInv => P` and `BY ... PTL DEF Spec`;
- for a refinement, the lemmas `InitRefines` (`Init => Abs!Init`) and `NextRefines` (`IInv /\ [Next]_vars => [Abs!Next]_absvars`), combined `BY ... PTL`.

Every theorem holds for every value of the constants that satisfies the
module's named `ASSUME`s.

**Host→script calls (`JavaScriptMethodQjsProofs`, `JavaScriptMethodDukProofs`).**
These hold for all `MaxJavaArgs ∈ Nat \ {0}` and `MaxVarArgs ∈ Nat`.
- QuickJS: `TypeCorrect`, `NoLeak` (`NoLeakOnExit`), `NoStrayFree` (`NoFreeOfUnsetSlot`) and `ArgsLive` (`ArgsLiveAtCall`).
  - `NoLeakOnExit` says nothing before the exit, so it is not inductive on its own.
  - `IInv` states that the filled slots are the prefix `0 .. i-1`, with `i` bounded by the JS argument count.
  - It also gives exact reference counts: each slot of the live set holds one reference. The live set is the prefix while converting, the prefix plus the vararg positions while the spread array exists, and empty after `JS_Call`.
  - Finally, `IInv` states that no unset slot was freed. The lemmas `NumJsBound` and `IntervalUnion` support it.
- Duktape: `TypeCorrect`, `StackBalanced` (`StackBalancedOnExit`) and `CallFrame` (`CallFrameAtCall`).
  - `IInv` describes the stack in every phase with `Frame(b, k)`: the callee entries followed by the first `k` JS arguments.
  - The lemmas on `Frame` come from `SequenceTheorems`.

**Script→host calls (`JavaMethodQjsProofs`, `JavaMethodDukProofs`).**
These prove `TypeCorrect` and `Implementation == Spec => BindingRefinement`. The
latter says that `JavaMethod::invoke` implements `JavaMethodBinding`, for every
`MaxParams` and `MaxArgc` (and, on Duktape, every `size_t` width).
- QuickJS. `IInv` says that the converted arguments are `Partial(i)`: the expected value at the positions below `i` and null above.
  - In the `toJavaArray` step, the spread array and every vararg source hold a reference.
  - After the conversion, `args` equals the abstract `ExpectedArgs`.
- Duktape. Arguments are popped from the top.
  - `IInv` states the stack as `Prefix(n)` (the positions `0 .. n-1`) and `args` as `Above(i)` (the expected values above `i`).
  - The vararg count is `(argc - minArgs) % 2^w`. The lemma `VarArgCount` shows that it is `argc - minArgs` when the count is large enough, and larger than `argc` when it wraps.
  - So a wrapped count fails in `popArray` and never reaches the call.
- In both, `NextRefines` maps every step to a step of `JavaMethodBinding` or to a stutter. `StatusOf` gives the mapped status at each `pc`.

**Proxies (`JavaScriptObjectDukProofs`, `JavaScriptObjectQjsProofs`).**
These hold for every `NumMethods ∈ Nat`.
- `TypeCorrect`.
- `Implementation == Spec => RegistrationRefinement`. `IInv` says that while the loop runs the value is an object and `registered = 1 .. k-1`. With the check, every method below `k` was a callable property. So `LoopDone` maps to `Register`, and every other exit of the constructor maps to `Fail`.
- On Duktape, also `StackDiscipline == Spec => []StackAtExit`, for every set `CtorExceptions`.
  - `StackAtExit` gives the stack height of every exit of the constructor. A built proxy, a refused object, a failed check and a caught `std::invalid_argument` all leave the stack at its entry height.
  - An exception that line 92 does not catch ends in `pc = "wrapUncaught"` and leaves exactly the object pushed at line 60: one entry, no more.
  - So the finding of run `duk_proxy_uncaught_wrap_error` is the only way the stack can be unbalanced, and its effect is bounded.
  - The model separates the two catch paths of `WrapMethod` into the exits `wrapError` and `wrapUncaught`. Both map to `Fail` in the refinement.
- `CheckMethod` is written with mutually exclusive `CASE` arms. Overlapping arms denote a `CHOOSE` in TLA+, which the provers cannot resolve. The behaviour TLC explores is unchanged.

**Constructors and `Parameter.kt` (`MethodCodecsProofs`).**
These hold for every `MaxParams ∈ Nat`.
- `TypeCorrect`.
- `CodecsComplete` (`CodecTableComplete`): every position holds a codec; each fixed position holds its own parameter's codec; the vararg position holds a codec other than the array's.
  - `IInv` says that in the loop `argumentTypes = Filled(i)`: the parameter codecs below `i` and empty slots above. After the loop it is `Full`, with the codec of `getGenericParameter()` at the vararg position.
  - The theorem does not say that this descriptor is the array's element type. For a Kotlin `IntArray` it is a null `Parameter`, and for a Java-only array it is `Object`. That is finding 4, which the violation run `vararg_element_descriptor` shows.
- Lemmas over the type universe of `TypeDescriptor`:
  - `FindJavaClassArray`: the Array<Int> workaround yields `Integer[]`;
  - `DeclaredAreParameters`;
  - `GenericDiffers`: the element descriptor of an array parameter is never the array parameter itself.
- Two assumptions say that a null value is none of the real ones:
  - `NullAssumption` in `TypeDescriptor`: `NoType`, `NoClass` and `NullParameter`;
  - `NoCodecAssumption` in `MethodCodecs`: the empty `unique_ptr`.

  TLC evaluates both in the `codec_tables` runs.

**Left to TLC, and why.**
- Liveness and `ENABLED`. No liveness property is stated, because no constructor or call loop waits on another actor.
- The violated properties (section 4): they are findings, not theorems.
- `VarArgElementAsSpecified`: TLC shows it is violated.
- Facts about RECURSIVE operators, and induction over data. The provers cannot instantiate induction over an operator parameter, and tlapm loses its SMT backend in any module that reaches a RECURSIVE declaration. No proof module reaches one.

## 6. Not modelled, and the plan

- **TypeDescriptor, the rest.** `invokeMethod`, the AIDL queries and `methods` return reflection objects no modelled code reads; `Parameter` has no mutable state.
- **Nested calls.** A composition of the invokers for nested script→host→script calls on one Duktape stack, and the promise queue. These need the context implementation, which is not in the sources, so they are to be modelled from the spec.
- **Further proofs.** Every invariant and refinement that a passing run checks is now proved. The remaining targets are an action property of each proof module, stated as `[][A]_vars`, and lemmas on the engine-independent parts that the two engines share.
- **Codecs, JNI and the exception handler.** Not in the sources, so they are modelled only as steps that may throw.
- **Build scripts.** No run-time state.
