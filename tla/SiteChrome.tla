----------------------------- MODULE SiteChrome -----------------------------
(***************************************************************************)
(* The parts of the site around its pages: the navigation (header, docs     *)
(* sidebar, pager, sitemap), the copy button of a code block (in a module   *)
(* of its own) and the file tree with its collapse button.                 *)
(***************************************************************************)
EXTENDS CopyButton, TLC, FiniteSets, Arrays

-----------------------------------------------------------------------------
(* Navigation.  A page is named by the last segment of its path.           *)

docsNav == <<<<"docs", "concepts">>,
             <<"installation", "first-virtualcluster", "host-onboarding">>,
             <<"operations", "api-reference", "security", "troubleshooting",
               "faq">>>>

docsFlat == Flat(docsNav)

docNeighbors(page) ==
    LET at == {i \in DOMAIN docsFlat : docsFlat[i] = page} IN
    [previous |-> {docsFlat[i - 1] : i \in at \ {1}},
     next |-> {docsFlat[i + 1] : i \in at \ {Len(docsFlat)}}]

primaryNav == {"quickstart", "use-cases", "architecture", "docs"}

\* The static routes and the docs.
routes == <<"home", "quickstart", "use-cases", "architecture">> \o docsFlat

Pages == Range(routes)

\* The segments of the path of a page.
PathOf(page) ==
    CASE page = "home" -> <<>>
      [] page \in Range(docsFlat) \ {"docs"} -> <<"docs", page>>
      [] OTHER -> <<page>>

\* The locations that the sitemap lists.
sitemap == [i \in DOMAIN routes |-> PathOf(routes[i])]

\* Mutant: only the page itself is active.
isActiveExactly(page, item) == PathOf(page) = PathOf(item)

\* The code compares the paths as strings.  That the model does it by whole
\* segments is the same on these pages: no path goes on after the name of a
\* header entry without a slash.
isActive(page, item) == StartsWith(PathOf(page), PathOf(item))

SiteInit ==
    /\ widget = "site" /\ pending = Nothing
    /\ ui \in [mounted : {TRUE}, page : Pages, open : {FALSE}, menu : {FALSE}]

\* Another page.  The docs pages share a layout, which keeps the state of its
\* menu until they are left.
GoTo(page, state) ==
    Becomes([state EXCEPT !.page = page,
                          !.menu = @ /\ page \in Range(docsFlat)], pending)

\* A link of the header, the logo's included; one in the sheet closes it.
HeaderLink(page) ==
    /\ On("site")
    /\ \/ page \in primaryNav /\ GoTo(page, [ui EXCEPT !.open = FALSE])
       \/ page = "home" /\ ~ui.open /\ GoTo(page, ui)

SheetOpenChange == On("site") /\ Becomes([ui EXCEPT !.open = ~@], pending)

\* A link of the sidebar, which only docs pages have.
SidebarLink(page) ==
    /\ On("site") /\ ~ui.open
    /\ ui.page \in Range(docsFlat) /\ page \in Range(docsFlat)
    /\ GoTo(page, ui)

\* The menu that takes the place of the sidebar on a small screen: it is opened
\* and closed, and a link of it is followed.
DocsMobileNav ==
    /\ On("site") /\ ~ui.open /\ ui.page \in Range(docsFlat)
    /\ \/ Becomes([ui EXCEPT !.menu = ~@], pending)
       \/ ui.menu /\ \E page \in Range(docsFlat) : GoTo(page, ui)

PagerLink ==
    /\ On("site") /\ ~ui.open
    /\ LET near == docNeighbors(ui.page) IN
       \E page \in near.previous \cup near.next : GoTo(page, ui)

\* The browser goes back or forward; the header stays as it is.
History(page) == On("site") /\ GoTo(page, ui)

-----------------------------------------------------------------------------
(* Tree, Folder, File and CollapseButton: the tree of RepoTree, and one     *)
(* with nested folders and with elements that cannot be selected.          *)

\* The folders of RepoTree and their files, each in the order of the collator.
RepoFolders ==
    <<<<"api", "api-types">>,
      <<"charts", "charts-host", "charts-management">>,
      <<"cmd", "cmd-webhook", "cmd-installer", "cmd-management">>,
      <<"config", "config-kubebuilder">>, <<"hack", "hack-image">>,
      <<"internal", "internal-admission", "internal-controllers",
        "internal-platform">>,
      <<"test", "test-envtest">>, <<"third-party", "third-party-ocm">>,
      <<"website", "website-site">>>>

\* An element: whether it is a folder, can be selected, the folders around it
\* and, as a number, its name.
Element(folder, selectable, path, name) ==
    [folder |-> folder, selectable |-> selectable, path |-> path, name |-> name]

RepoElements ==
    LET place(id) == CHOOSE p \in (DOMAIN RepoFolders) \X (1 .. 4) :
                        /\ p[2] \in DOMAIN RepoFolders[p[1]]
                        /\ RepoFolders[p[1]][p[2]] = id
        folder(id) == RepoFolders[place(id)[1]][1]
    IN [id \in UNION {Range(RepoFolders[f]) : f \in DOMAIN RepoFolders} |->
          IF folder(id) = id THEN Element(TRUE, TRUE, <<>>, place(id)[1])
          ELSE Element(FALSE, TRUE, <<folder(id)>>, place(id)[2])]
       @@ ("design" :> Element(FALSE, TRUE, <<>>, 0))

NestedElements ==
    [src |-> Element(TRUE, TRUE, <<>>, 3), types |-> Element(FALSE, TRUE, <<"src">>, 1),
     v1 |-> Element(TRUE, TRUE, <<"src">>, 2),
     cell |-> Element(FALSE, TRUE, <<"src", "v1">>, 1),
     vendor |-> Element(TRUE, FALSE, <<>>, 1),
     ocm |-> Element(FALSE, TRUE, <<"vendor">>, 1),
     notes |-> Element(FALSE, FALSE, <<>>, 2)]

Elements == RepoElements @@ NestedElements

Ids(tree) == IF tree = "repo" THEN DOMAIN RepoElements ELSE DOMAIN NestedElements

Folders(id) == Range(Elements[id].path)

Siblings(tree, path) == {id \in Ids(tree) : Elements[id].path = path}

defaultTreeComparator(a, b) ==
    IF Elements[a].folder # Elements[b].folder THEN Elements[a].folder
    ELSE Elements[a].name < Elements[b].name

\* The elements inside a folder as they are listed.
sortTreeElements ==
    [p \in UNION {{<<tree, Elements[id].path>> : id \in Ids(tree)} :
                    tree \in {"repo", "nested"}} |->
       LET inside == Siblings(p[1], p[2]) IN
       [n \in 1 .. Cardinality(inside) |->
          CHOOSE id \in inside :
            Cardinality({a \in inside : defaultTreeComparator(a, id)}) = n - 1]]

\* An element is shown inside folders that are open.
renderTreeElements(id, expanded) == Folders(id) \subseteq expanded

\* Mutant: only the innermost folder.
findInnermost(id) ==
    LET path == Elements[id].path IN
    IF path = <<>> THEN {} ELSE {Final(path)}

\* What expandSpecificTargetedElements adds for the selected element.
findParent(id) ==
    IF Elements[id].selectable THEN Folders(id) \cup {id} ELSE Folders(id)

expendAllTree ==
    {id \in Ids("nested") :
       /\ \E child \in Ids("nested") : id \in Folders(child)
       /\ \A f \in Folders(id) \cup {id} : Elements[f].selectable}

\* The effects of CollapseButton and, after it, of Tree.
TreeEffects(state) ==
    [state EXCEPT
       !.expandedItems = (IF state.expandAll THEN expendAllTree ELSE @)
           \cup (IF state.initialSelectedId = "none" THEN {}
                 ELSE findParent(state.initialSelectedId)),
       !.last = "effects"]

\* RepoTree has no collapse button and selects nothing.
TreeInit ==
    /\ widget = "tree" /\ pending = Nothing
    /\ LET start(tree, expandAll, selected, initial) ==
             TreeEffects([mounted |-> TRUE, tree |-> tree,
                          initialSelectedId |-> selected, selectedId |-> selected,
                          expandAll |-> expandAll, expandedItems |-> initial,
                          last |-> "none"])
       IN \/ ui = start("repo", FALSE, "none", {"api", "cmd", "internal", "charts"})
          \/ \E expandAll \in BOOLEAN, selected \in Ids("nested") \cup {"none"},
                initial \in {{}, {"src"}} :
                ui = start("nested", expandAll, selected, initial)

selectItem(state, id) == [state EXCEPT !.selectedId = id]

handleExpand(state, id) ==
    [state EXCEPT !.last = "user",
                  !.expandedItems = IF id \in @ THEN @ \ {id} ELSE @ \cup {id}]

\* A folder that is shown is clicked.
Folder(id) ==
    /\ On("tree") /\ id \in Ids(ui.tree)
    /\ Elements[id].folder /\ Elements[id].selectable
    /\ renderTreeElements(id, ui.expandedItems)
    /\ Becomes(handleExpand(selectItem(ui, id), id), pending)

\* A file that is shown is clicked.
File(id) ==
    /\ On("tree") /\ id \in Ids(ui.tree)
    /\ ~Elements[id].folder /\ Elements[id].selectable
    /\ renderTreeElements(id, ui.expandedItems)
    /\ Becomes(selectItem(ui, id), pending)

\* The collapse button.
CollapseButton ==
    /\ On("tree") /\ ui.tree = "nested"
    /\ Becomes(IF ui.expandedItems # {}
               THEN [ui EXCEPT !.expandedItems = {}, !.last = "user"]
               ELSE [ui EXCEPT !.expandedItems = expendAllTree, !.last = "all"],
               pending)

\* A new array of elements, or another initially selected one.
TreeProps(selected) ==
    /\ On("tree") /\ ui.tree = "nested"
    /\ Becomes(TreeEffects([ui EXCEPT !.initialSelectedId = selected]), pending)

-----------------------------------------------------------------------------

ChromeInit == SiteInit \/ CopyInit \/ TreeInit

ChromeNext ==
    \/ \E page \in Pages : HeaderLink(page) \/ SidebarLink(page) \/ History(page)
    \/ SheetOpenChange \/ PagerLink \/ DocsMobileNav
    \/ CopyNext
    \/ \E id \in DOMAIN Elements : Folder(id) \/ File(id)
    \/ CollapseButton
    \/ \E id \in Ids("nested") \cup {"none"} : TreeProps(id)

-----------------------------------------------------------------------------
(* Properties.                                                             *)

\* Wherever the reader is, the navigation agrees: the header marks at most one
\* entry, on a docs page that of the docs; the sidebar marks one; the pager
\* leads to a neighbour whose pager leads back, and ends only at the two ends;
\* the sitemap lists no location twice.
NavigationAgrees ==
    widget = "site" =>
      LET active == {item \in primaryNav : isActive(ui.page, item)}
          near == docNeighbors(ui.page)
      IN /\ Cardinality(active) <= 1
         /\ Cardinality(Range(sitemap)) = Len(routes)
         /\ ui.page \in Range(docsFlat) =>
              /\ active = {"docs"}
              /\ Cardinality({i \in DOMAIN docsFlat : docsFlat[i] = ui.page}) = 1
              /\ near.previous = {} <=> ui.page = Head(docsFlat)
              /\ near.next = {} <=> ui.page = Final(docsFlat)
         /\ \A page \in near.next : docNeighbors(page).previous = {ui.page}

\* After a mount or a change of the elements the initially selected element can
\* be seen, inside folders that cannot be clicked too; after the collapse button
\* has opened the tree every element can be seen that is not inside such a
\* folder.  Folders are listed first, and no element is left out.
TreeShows ==
    widget = "tree" =>
      LET shown(id) == renderTreeElements(id, ui.expandedItems) IN
      /\ ui.last = "effects" /\ ui.initialSelectedId # "none"
           => shown(ui.initialSelectedId)
      /\ ui.last = "all" =>
           \A id \in Ids("nested") :
              (\A f \in Folders(id) : Elements[f].selectable) => shown(id)
      /\ ui.last = "effects" => \A id \in Ids(ui.tree) :
           LET path == Elements[id].path
               listed == sortTreeElements[<<ui.tree, path>>]
           IN /\ Range(listed) = Siblings(ui.tree, path)
              /\ \A i \in 1 .. Len(listed) - 1 :
                    Elements[listed[i + 1]].folder => Elements[listed[i]].folder
=============================================================================
