SPECIFICATION Spec
CONSTANTS
  earth = earth  mars = mars
  root = root  boss = boss  earthling = earthling  martian = martian
  Colonies = {earth, mars}
  Users = {root, boss, earthling, martian}
  Home <- MCHome
  RoleSets <- MCRoleSets
INVARIANTS TypeOK SuperAdminRemains BootstrapOnce
SYMMETRY Symmetry
