-------------------------------- MODULE GoAST ---------------------------------
(***************************************************************************)
(* The nodes of Go's syntax tree, as go/parser builds them: a record whose  *)
(* field "ast" is the node's type.  A list of nodes is a sequence; a block  *)
(* is the list of its statements.  Positions and comments are left out.     *)
(***************************************************************************)
EXTENDS IR

Ident(name) == [ast |-> "Ident", name |-> name]
BasicLit(tok, value) == [ast |-> "BasicLit", tok |-> tok, value |-> value]
BinaryExpr(op, x, y) == [ast |-> "BinaryExpr", op |-> op, x |-> x, y |-> y]
UnaryExpr(op, x) == [ast |-> "UnaryExpr", op |-> op, x |-> x]
SelectorExpr(x, sel) == [ast |-> "SelectorExpr", x |-> x, sel |-> sel]
ParenExpr(x) == [ast |-> "ParenExpr", x |-> x]
StarExpr(x) == [ast |-> "StarExpr", x |-> x]
CompositeLit(type, elts) == [ast |-> "CompositeLit", type |-> type, elts |-> elts]
KeyValueExpr(key, value) == [ast |-> "KeyValueExpr", key |-> key, value |-> value]
IndexExpr(x, index) == [ast |-> "IndexExpr", x |-> x, index |-> index]
SliceExpr(x, low, high, max) ==
  [ast |-> "SliceExpr", x |-> x, low |-> low, high |-> high, max |-> max]
CallExpr(fun, args) == [ast |-> "CallExpr", fun |-> fun, args |-> args]
FuncLit(type, body) == [ast |-> "FuncLit", type |-> type, body |-> body]

\* len is Nil in []T, an expression in [n]T; dir is "both", "send" or "recv".
ArrayType(len, elt) == [ast |-> "ArrayType", len |-> len, elt |-> elt]
MapType(key, value) == [ast |-> "MapType", key |-> key, value |-> value]
ChanType(dir, value) == [ast |-> "ChanType", dir |-> dir, value |-> value]
FuncType(params, results) == [ast |-> "FuncType", params |-> params, results |-> results]
StructType(fields) == [ast |-> "StructType", fields |-> fields]
InterfaceType(methods) == [ast |-> "InterfaceType", methods |-> methods]
Field(names, type) == [ast |-> "Field", names |-> names, type |-> type]

AssignStmt(lhs, tok, rhs) == [ast |-> "AssignStmt", lhs |-> lhs, tok |-> tok, rhs |-> rhs]
BlockStmt(list) == [ast |-> "BlockStmt", list |-> list]
\* els is Nil, a block or an if.
IfStmt(init, cond, body, els) ==
  [ast |-> "IfStmt", init |-> init, cond |-> cond, body |-> body, els |-> els]
ForStmt(init, cond, post, body) ==
  [ast |-> "ForStmt", init |-> init, cond |-> cond, post |-> post, body |-> body]
RangeStmt(key, value, tok, x, body) ==
  [ast |-> "RangeStmt", key |-> key, value |-> value, tok |-> tok, x |-> x, body |-> body]
DeferStmt(call) == [ast |-> "DeferStmt", call |-> call]
GoStmt(call) == [ast |-> "GoStmt", call |-> call]
SendStmt(chan, value) == [ast |-> "SendStmt", chan |-> chan, value |-> value]
SelectStmt(clauses) == [ast |-> "SelectStmt", clauses |-> clauses]
\* comm is Nil in a default clause.
CommClause(comm, body) == [ast |-> "CommClause", comm |-> comm, body |-> body]
ReturnStmt(results) == [ast |-> "ReturnStmt", results |-> results]
ExprStmt(x) == [ast |-> "ExprStmt", x |-> x]
IncDecStmt(x, tok) == [ast |-> "IncDecStmt", x |-> x, tok |-> tok]

\* recv is Nil in a function, the list of one field in a method.
FuncDecl(recv, name, type, body) ==
  [ast |-> "FuncDecl", recv |-> recv, name |-> name, type |-> type, body |-> body]
TypeSpec(name, type) == [ast |-> "TypeSpec", name |-> name, type |-> type]
GenDecl(tok, specs) == [ast |-> "GenDecl", tok |-> tok, specs |-> specs]
\* imports are the paths of the file's import declarations, unquoted.
AstFile(name, imports, decls) ==
  [ast |-> "File", name |-> name, imports |-> imports, decls |-> decls]
===============================================================================
